---- MODULE Spec2Model ----
(***************************************************************************)
(* ksana: recording and playback of simulator shared memory.               *)
(*                                                                         *)
(* Part 1: the binary container codec of src/src/io.rs (Saver, Loader).    *)
(* A stream is a sequence of bytes (0..255).  The writer side is a Saver   *)
(* over a buffering writer W (pending = bytes W holds, sink = bytes that   *)
(* reached the destination); the reader side is a Loader over a fixed byte *)
(* source (rdata) with a read position (rpos).  Specification: Spec.        *)
(*                                                                         *)
(* Part 2: the capture session of src/src/commands/dump.rs (run,           *)
(* wait_for_connection, record) writing through the same Saver, with the   *)
(* connect() and disconnect() of the connectors of src/src/sims.           *)
(* Specification: CaptureSpec.                                             *)
(*                                                                         *)
(* Part 3: the frame layouts and the players of src/src/sims.              *)
(*                                                                         *)
(* Part 4: the playback session of src/src/commands/play.rs, reading       *)
(* through the same Loader.  Specification: PlaySpec.                      *)
(*                                                                         *)
(* Part 5: a player under any sequence of calls of the Player trait.       *)
(* Specification: PlayerSpec.                                              *)
(*                                                                         *)
(* Part 6: serialize, deserialize and latest_buf_index of the frame        *)
(* layouts, each applied once to an input.  Specification: LayoutSpec.     *)
(*                                                                         *)
(* Part 7: the named mappings of src/src/shm.rs, made, opened and dropped  *)
(* in any order.  Specification: ShmSpec.                                  *)
(*                                                                         *)
(* SessionSpec is one run of the program: the dump or the play command.    *)
(***************************************************************************)
EXTENDS Integers, Sequences, FiniteSets, TLC

VARIABLES
    saver,      \* "none" | "open" : whether a Saver exists
    saverArgs,  \* the (fps, id) Saver::new was called with
    pending,    \* bytes written to the Saver's writer and not yet flushed
    sink,       \* bytes that reached the destination of the writer
    saved,      \* history: the payloads handed to Saver::save, in order
    origin,     \* history: "none" | "saver" | "foreign" : who wrote the stream header
    foreign,    \* history: number of hand-made records appended to sink
    loader,     \* "none" | "open" | "failed" : outcome of Loader::new
    newResult,  \* the Result of Loader::new
    rdata,      \* the bytes the Loader's reader reads from
    rpos,       \* number of bytes of rdata the reader has consumed
    version,    \* Loader.version
    fps,        \* Loader.fps
    id,         \* Loader.id
    flushedAt,  \* history: TRUE iff the Loader was opened on a flushed Saver stream
    loadStart,  \* history: rpos at the start of the latest load()
    loads,      \* history: the results of the load() calls, in order
    \* capture session (src/src/commands/dump.rs)
    quit_flag,      \* the cancellation flag the signal handler sets
    cpc,            \* where dump::run is
    dfps,           \* the fps dump::run was called with
    probe,          \* wait_for_connection: index of the connector tried next
    guard,          \* the connector the live ConnectorGuard wraps, 0 if none
    held,           \* the connectors that are connected (hold their regions)
    no_data_count,  \* record: no_data_count
    recResult,      \* what record() returned, "none" before it returns
    result,         \* what dump::run returned, "none" before it returns
    flushes,        \* history: number of Saver::flush calls dump::run made
    emptyRun,       \* history: update() calls that returned None since the
                    \* start of record() or the last one that returned data
    resetSeen,      \* history: data arrived after at least one empty poll
    regions,        \* per connector, the regions whose readers its fields hold
    attempts,       \* history: the connect() calls of the current round of
                    \* wait_for_connection: connector id, what it found, result
    slept,          \* the argument of the latest sleep_ms of wait_for_connection
    outFile,        \* "none" | "created" : whether File::create made the output file
    quitAt,         \* history: the command and its position when the flag was set
    \* playback session (src/src/commands/play.rs) and the players
    ppc,            \* where play::run is
    player,         \* the player: its kind and the objects its fields hold
    pmem,           \* the bytes of the regions the players create, as a
                    \* consumer that keeps them mapped sees them
    presult,        \* what play::run returned, "none" before it returns
    loopResult,     \* run: the local result
    pcalls,         \* history: the Player methods called, in order
    pwrites,        \* history: number of SharedMemoryWriter::write calls
    pdata,          \* history: the frame handed to the latest update() call
    wlog,           \* history: the write calls the latest update() or stop()
                    \* made, in order: region, offset, length
    pmade,          \* history: the objects the latest initialize() created
                    \* (made) and those of them open when it returned (open)
    \* the frame layouts (src/src/sims/*/data.rs) as functions
    lop,            \* the function applied last, "none" before the first
    lin,            \* its argument
    lout,           \* its result
    shm,            \* per name of a mapping: the writers and readers of this
                    \* process that are alive, the handles of this process
                    \* that are open, the handles of other processes
    \* the iracing connector (src/src/sims/iracing/connector.rs)
    irsdk,          \* the region of the simulator: whether it exists (up) and
                    \* the fields of its header
    conn,           \* the connector: whether shm is Some, last_tick_count,
                    \* last_session_info_update
    polled,         \* history: the number of update() calls, what the latest
                    \* returned, and the connector method called last (since)
    \* the sleeper (src/src/sleeper.rs) in the tick loops
    nap             \* the sleep_ms call of a tick loop that is in progress
                    \* (on) and its argument (ms)

ioVars == <<saver, saverArgs, pending, sink, saved, origin, foreign, loader, newResult,
            rdata, rpos, version, fps, id, flushedAt, loadStart, loads>>

loaderVars == <<foreign, loader, newResult, rdata, rpos, version, fps, id,
                flushedAt, loadStart, loads>>

capVars == <<quit_flag, cpc, dfps, probe, guard, held, no_data_count, recResult,
             result, flushes, emptyRun, resetSeen, regions, attempts, slept,
             outFile, quitAt>>

playVars == <<ppc, player, pmem, presult, loopResult, pcalls, pwrites, pdata,
              wlog, pmade>>

connVars == <<irsdk, conn, polled>>

layVars == <<lop, lin, lout, shm, connVars>>

vars == <<ioVars, capVars, playVars, layVars, nap>>

----------------------------------------------------------------------------
(* Bounds of the model *)

\* most payloads one Saver saves
MaxFrames == 2
\* most hand-made records appended to a stream
MaxForeign == 1
\* load() calls made on one Loader beyond the records the stream can hold
ExtraLoads == 2

----------------------------------------------------------------------------
(* Program constants *)

\* b"RECROCKS"
MAGIC == <<82, 69, 67, 82, 79, 67, 75, 83>>
\* mutant: the padding sized as 72 - 8 - 4 - 4, the version field forgotten
PADDING_SIZE_NoVersion == 72 - 8 - 4 - 4
PADDING_SIZE == 52
CURRENT_VERSION == 1
FRAME_HEADER_SIZE == 12

----------------------------------------------------------------------------
(* Bytes and little-endian integers (byteorder::LittleEndian) *)

\* a value no stream length reaches; stands for every u32 >= 2^31 - 1
Huge == 2147483647

Zeros(n) == [i \in 1..n |-> 0]

\* write_i32 / write_u32: two's complement, least significant byte first
LE32(n) ==
    << n % 256, (n \div 256) % 256, (n \div 65536) % 256, (n \div 16777216) % 256 >>

\* read_i32
I32(b) ==
    b[1] + 256 * b[2] + 65536 * b[3]
         + 16777216 * (IF b[4] >= 128 THEN b[4] - 256 ELSE b[4])

\* read_u32 followed by "as usize"
U32(b) ==
    IF b[4] >= 128 THEN Huge
    ELSE b[1] + 256 * b[2] + 65536 * b[3] + 16777216 * b[4]

----------------------------------------------------------------------------
(* The stream compressor (flate2 zlib).  The zlib framing is kept: a 2-byte *)
(* header (CMF, FLG), a body, the Adler-32 of the raw data in 4 big-endian  *)
(* bytes.  The deflate body is abstracted to run-length pairs (count, byte) *)
(* closed by an end-of-stream marker 0.                                     *)

ZLIB_HEADER == <<120, 156>>

\* the two sums of Adler-32 over p[lo..hi], modulo 65521: s, the sum of the
\* bytes, and w, the sum of the sums of the prefixes, computed by halves
RECURSIVE AdlerSums(_, _, _)
AdlerSums(p, lo, hi) ==
    IF lo > hi THEN <<0, 0>>
    ELSE IF lo = hi THEN <<p[lo] % 65521, p[lo] % 65521>>
    ELSE LET mid == (lo + hi) \div 2
             l == AdlerSums(p, lo, mid)
             r == AdlerSums(p, mid + 1, hi)
         IN  << (l[1] + r[1]) % 65521,
                (l[2] + (((hi - mid) * l[1]) % 65521) + r[2]) % 65521 >>

\* a starts at 1 and adds every byte; b adds every value a takes
Adler32(p) ==
    LET sw == AdlerSums(p, 1, Len(p))
        a == (1 + sw[1]) % 65521
        b == (Len(p) + sw[2]) % 65521
    IN  << b \div 256, b % 256, a \div 256, a % 256 >>

\* the maximal runs of equal bytes of p[lo..hi], in order, each as
\* <<length, byte>>, computed by halves
RECURSIVE Blocks(_, _, _)
Blocks(p, lo, hi) ==
    IF lo = hi THEN << <<1, p[lo]>> >>
    ELSE LET mid == (lo + hi) \div 2
             l == Blocks(p, lo, mid)
             r == Blocks(p, mid + 1, hi)
         IN  IF l[Len(l)][2] = r[1][2]
             THEN SubSeq(l, 1, Len(l) - 1)
                    \o << <<l[Len(l)][1] + r[1][1], r[1][2]>> >>
                    \o SubSeq(r, 2, Len(r))
             ELSE l \o r

\* a run of n bytes b as pairs (count, byte), every count 255 but the last
RunPairs(n, b) ==
    LET q == (n + 254) \div 255
    IN  [k \in 1..(2 * q) |->
            IF k % 2 = 0 THEN b
            ELSE IF (k + 1) \div 2 < q THEN 255 ELSE n - 255 * (q - 1)]

\* the pairs of the runs lo..hi of a sequence of runs, computed by halves
RECURSIVE Pairs(_, _, _)
Pairs(runs, lo, hi) ==
    IF lo > hi THEN <<>>
    ELSE IF lo = hi THEN RunPairs(runs[lo][1], runs[lo][2])
    ELSE LET mid == (lo + hi) \div 2
         IN  Pairs(runs, lo, mid) \o Pairs(runs, mid + 1, hi)

\* every run of equal bytes, cut after 255 bytes, as a pair; then the marker
DeflateBody(p) ==
    IF p = <<>> THEN <<0>>
    ELSE LET runs == Blocks(p, 1, Len(p))
         IN  Pairs(runs, 1, Len(runs)) \o <<0>>

\* ZlibEncoder::new(Vec::new(), ..); write_all(data); finish()
Compress(p) == ZLIB_HEADER \o DeflateBody(p) \o Adler32(p)

\* the bytes the pairs lo..hi of the body that starts at c[3] stand for
RECURSIVE Expand(_, _, _)
Expand(c, lo, hi) ==
    IF lo > hi THEN <<>>
    ELSE IF lo = hi THEN [k \in 1..c[1 + 2 * lo] |-> c[2 + 2 * lo]]
    ELSE LET mid == (lo + hi) \div 2
         IN  Expand(c, lo, mid) \o Expand(c, mid + 1, hi)

\* the body from c[3] on: pairs up to the first count 0, which must be there;
\* next is the position after it
InflateBody(c) ==
    LET ends == {k \in 1..((Len(c) - 1) \div 2) : c[1 + 2 * k] = 0}
    IN  IF ends = {} THEN [ok |-> FALSE, out |-> <<>>, next |-> Len(c) + 1]
        ELSE LET e == CHOOSE k \in ends : \A j \in ends : k <= j
             IN  [ok |-> TRUE, out |-> Expand(c, 1, e - 1), next |-> 2 + 2 * e]

\* ZlibDecoder::new(&compressed[..]).read_to_end(..): the raw data, or failure
Decompress(c) ==
    IF \/ Len(c) < 2
       \/ c[1] % 16 # 8
       \/ (c[1] * 256 + c[2]) % 31 # 0
    THEN [ok |-> FALSE, out |-> <<>>]
    ELSE LET b == InflateBody(c)
         IN  IF /\ b.ok
                /\ b.next + 3 <= Len(c)
                /\ SubSeq(c, b.next, b.next + 3) = Adler32(b.out)
             THEN [ok |-> TRUE, out |-> b.out]
             ELSE [ok |-> FALSE, out |-> <<>>]

----------------------------------------------------------------------------
(* Saver *)

\* mutant: fps written before the file version
SaverHeader_FpsFirst(f, sid) ==
    MAGIC \o LE32(f) \o LE32(1) \o sid \o Zeros(PADDING_SIZE)

\* the bytes Saver::new writes
SaverHeader(f, sid) ==
    MAGIC \o LE32(1) \o LE32(f) \o sid \o Zeros(PADDING_SIZE)

\* mutant: the raw length written in the compressed-length field too
SaverRecord_RawAsCompressedLen(data) ==
    LET compressed == Compress(data)
    IN  LE32(FRAME_HEADER_SIZE) \o LE32(Len(data)) \o LE32(Len(data))
            \o compressed

\* mutant: the compressed length written in the raw-length field too
SaverRecord_CompressedAsRawLen(data) ==
    LET compressed == Compress(data)
    IN  LE32(FRAME_HEADER_SIZE) \o LE32(Len(compressed)) \o LE32(Len(compressed))
            \o compressed

\* the bytes Saver::save writes for data
SaverRecord(data) ==
    LET compressed == Compress(data)
    IN  LE32(FRAME_HEADER_SIZE) \o LE32(Len(compressed)) \o LE32(Len(data))
            \o compressed

\* mutant: a flush that writes nothing
FlushInto_Lost(dst, buf) == dst

\* Write::flush of the Saver's writer: what is in the sink afterwards
FlushInto(dst, buf) == dst \o buf

----------------------------------------------------------------------------
(* Loader *)

\* Result values of Loader::new and Loader::load, in one record shape
Res(kind, err, val, payload) ==
    [kind |-> kind, err |-> err, val |-> val, payload |-> payload]

SomeFrame(p) == Res("Some", "", 0, p)
None == Res("None", "", 0, <<>>)
Err(e, v) == Res("Err", e, v, <<>>)

\* Read::read_exact of n bytes at position pos: on success the bytes and the
\* new position.  On a short read it fails with UnexpectedEof and the number of
\* bytes consumed is unspecified: std's Cursor has left the position in place
\* or moved it to the end depending on the release, a BufReader<File> consumes
\* what was there.
CanRead(data, pos, n) == n <= Len(data) - pos
Bytes(data, pos, n) == SubSeq(data, pos + 1, pos + n)
EofPositions(data, pos) == {pos, Len(data)}

\* what Loader::new returns when it fails: no Loader exists
NoLoader(e, v) ==
    [res |-> Err(e, v), version |-> 0, fps |-> 0, id |-> <<>>, pos |-> 0]

\* mutant: any version other than the current one is refused
VersionRefused_NotCurrent(v) == v # CURRENT_VERSION

\* the version test of Loader::new
VersionRefused(v) == v > CURRENT_VERSION

\* mutant: the version field is read and tested before the magic is compared
LoaderNew_VersionFirst(data) ==
    IF ~CanRead(data, 0, 8) THEN NoLoader("Io", 0)
    ELSE IF ~CanRead(data, 8, 4) THEN NoLoader("Io", 0)
    ELSE LET v == I32(Bytes(data, 8, 4)) IN
    IF VersionRefused(v) THEN NoLoader("UnsupportedVersion", v)
    ELSE IF Bytes(data, 0, 8) # MAGIC THEN NoLoader("InvalidMagic", 0)
    ELSE IF ~CanRead(data, 12, 4) THEN NoLoader("Io", 0)
    ELSE IF ~CanRead(data, 16, 4) THEN NoLoader("Io", 0)
    ELSE IF ~CanRead(data, 20, PADDING_SIZE) THEN NoLoader("Io", 0)
    ELSE [res |-> Res("Ok", "", 0, <<>>),
          version |-> v,
          fps |-> I32(Bytes(data, 12, 4)),
          id |-> Bytes(data, 16, 4),
          pos |-> 20 + PADDING_SIZE]

\* Loader::new on a reader over data
LoaderNew(data) ==
    IF ~CanRead(data, 0, 8) THEN NoLoader("Io", 0)
    ELSE IF Bytes(data, 0, 8) # MAGIC THEN NoLoader("InvalidMagic", 0)
    ELSE IF ~CanRead(data, 8, 4) THEN NoLoader("Io", 0)
    ELSE LET v == I32(Bytes(data, 8, 4)) IN
    IF VersionRefused(v) THEN NoLoader("UnsupportedVersion", v)
    ELSE IF ~CanRead(data, 12, 4) THEN NoLoader("Io", 0)
    ELSE IF ~CanRead(data, 16, 4) THEN NoLoader("Io", 0)
    ELSE IF ~CanRead(data, 20, PADDING_SIZE) THEN NoLoader("Io", 0)
    ELSE [res |-> Res("Ok", "", 0, <<>>),
          version |-> v,
          fps |-> I32(Bytes(data, 12, 4)),
          id |-> Bytes(data, 16, 4),
          pos |-> 20 + PADDING_SIZE]

\* the "skip any extra header bytes" guard of Loader::load
SkipsExtra(v) == v = CURRENT_VERSION

\* mutant: only a negative header length is refused
HeaderTooSmall_Negative(header_size) == header_size < 0

\* the header-length test of Loader::load
HeaderTooSmall(header_size) == header_size < 12

\* mutant: an undersized header is taken for the end of the stream
UndersizedHeader_AsEof(header_size) == None

\* what Loader::load returns for an undersized header
UndersizedHeader(header_size) == Err("InvalidHeaderSize", header_size)

\* Loader::load with the reader at pos: the set of possible (result, new
\* position) pairs.  Only a short read leaves a choice.
Load(data, pos, v) ==
    LET out(r, q) == [res |-> r, pos |-> q]
        eof(r, q) == {out(r, x) : x \in EofPositions(data, q)}
    IN
    IF ~CanRead(data, pos, 4) THEN eof(None, pos)
    ELSE LET header_size == I32(Bytes(data, pos, 4)) IN
    IF HeaderTooSmall(header_size)
    THEN {out(UndersizedHeader(header_size), pos + 4)}
    ELSE IF ~CanRead(data, pos + 4, 4) THEN eof(None, pos + 4)
    ELSE LET compressed_len == U32(Bytes(data, pos + 4, 4)) IN
    IF ~CanRead(data, pos + 8, 4) THEN eof(Err("Io", 0), pos + 8)
    ELSE LET skip == IF SkipsExtra(v) /\ header_size > 12 THEN header_size - 12 ELSE 0
             p2 == pos + 12 + skip
         IN
    \* read_u8 one byte at a time: the first missing byte is at the end
    IF skip > Len(data) - (pos + 12) THEN {out(Err("Io", 0), Len(data))}
    ELSE IF ~CanRead(data, p2, compressed_len) THEN eof(Err("Io", 0), p2)
    ELSE LET d == Decompress(Bytes(data, p2, compressed_len)) IN
    IF ~d.ok THEN {out(Err("DecompressionFailed", 0), p2 + compressed_len)}
    ELSE {out(SomeFrame(d.out), p2 + compressed_len)}

----------------------------------------------------------------------------
(* Inputs *)

Irac == <<105, 114, 97, 99>>
Acsa == <<97, 99, 115, 97>>
BadMagic == <<66, 65, 68, 77, 65, 71, 73, 67>>

\* payloads handed to save: empty, incompressible, compressible (a run)
Payloads == { <<>>, <<1, 2>>, <<0, 0, 0, 0, 0, 0>> }

\* (fps, id) pairs handed to Saver::new; fps is an i32
SaverInputs == { <<60, Acsa>>, <<5, Irac>>, <<-1, Irac>> }

\* a hand-made header: any magic and version, cut to n bytes
ForeignHeader(magic, v, f, sid, n) ==
    SubSeq(magic \o LE32(v) \o LE32(f) \o sid \o Zeros(PADDING_SIZE), 1, n)

ForeignHeaders ==
    {ForeignHeader(MAGIC, v, 30, Irac, 72) : v \in {-1, 0, 1, 2}}
    \cup {ForeignHeader(BadMagic, v, 30, Irac, n) : v \in {1, 2}, n \in {8, 72}}
    \cup {ForeignHeader(MAGIC, 1, 30, Irac, n) : n \in {5, 12, 71}}

\* a hand-made record: header length h, the two length fields, h - 12 extra
\* header bytes, then the payload bytes
ForeignRecord(h, clen, rawlen, body) ==
    LE32(h) \o LE32(clen) \o LE32(rawlen)
        \o [i \in 1..(IF h > 12 THEN h - 12 ELSE 0) |-> 170] \o body

ForeignPayloads == { <<7>>, <<0, 0, 0>> }

\* a compressed stream with one body byte changed
Corrupt(c) == [c EXCEPT ![4] = (c[4] + 1) % 256]

ForeignRecords ==
    {ForeignRecord(h, Len(Compress(p)), Len(p), Compress(p)) :
        h \in {-1, 0, 11, 12, 13, 14}, p \in ForeignPayloads}
    \cup {ForeignRecord(12, Len(Compress(p)), Len(p) + 1, Compress(p)) :
            p \in ForeignPayloads}
    \cup {ForeignRecord(12, Len(Compress(p)), Len(p), Corrupt(Compress(p))) :
            p \in ForeignPayloads}
    \cup {SubSeq(ForeignRecord(12, Len(Compress(<<7>>)), 1, Compress(<<7>>)), 1, n) :
            n \in {2, 6, 10, 14}}

MaxLoads == MaxFrames + MaxForeign + ExtraLoads

----------------------------------------------------------------------------
(* Actions of the codec *)

\* Saver::new(writer, fps, id)
SaverNew ==
    /\ saver = "none" /\ origin = "none"
    /\ \E a \in SaverInputs :
          /\ saverArgs' = a
          /\ pending' = SaverHeader(a[1], a[2])
    /\ saver' = "open"
    /\ origin' = "saver"
    /\ UNCHANGED <<sink, saved, foreign, loader, newResult, rdata, rpos,
                   version, fps, id, flushedAt, loadStart, loads>>
    /\ UNCHANGED capVars
    /\ UNCHANGED layVars
    /\ UNCHANGED playVars
    /\ UNCHANGED nap

\* Saver::save(data)
Save ==
    /\ saver = "open" /\ loader = "none"
    /\ Len(saved) < MaxFrames
    /\ \E data \in Payloads :
          /\ pending' = pending \o SaverRecord(data)
          /\ saved' = Append(saved, data)
    /\ UNCHANGED <<saver, saverArgs, sink, origin, foreign, loader, newResult,
                   rdata, rpos, version, fps, id, flushedAt, loadStart, loads>>
    /\ UNCHANGED capVars
    /\ UNCHANGED layVars
    /\ UNCHANGED playVars
    /\ UNCHANGED nap

\* Saver::flush()
Flush ==
    /\ saver = "open" /\ loader = "none"
    /\ sink' = FlushInto(sink, pending)
    /\ pending' = <<>>
    /\ UNCHANGED <<saver, saverArgs, saved, origin, foreign, loader, newResult,
                   rdata, rpos, version, fps, id, flushedAt, loadStart, loads>>
    /\ UNCHANGED capVars
    /\ UNCHANGED layVars
    /\ UNCHANGED playVars
    /\ UNCHANGED nap

\* a stream no Saver wrote is put in place: its header
WriteForeignHeader ==
    /\ saver = "none" /\ origin = "none"
    /\ \E h \in ForeignHeaders : sink' = h
    /\ origin' = "foreign"
    /\ UNCHANGED <<saver, saverArgs, pending, saved, foreign, loader, newResult,
                   rdata, rpos, version, fps, id, flushedAt, loadStart, loads>>
    /\ UNCHANGED capVars
    /\ UNCHANGED layVars
    /\ UNCHANGED playVars
    /\ UNCHANGED nap

\* ... and a record appended to it
WriteForeignRecord ==
    /\ origin = "foreign" /\ loader = "none"
    /\ Len(sink) >= 72
    /\ foreign < MaxForeign
    /\ \E r \in ForeignRecords : sink' = sink \o r
    /\ foreign' = foreign + 1
    /\ UNCHANGED <<saver, saverArgs, pending, saved, origin, loader, newResult,
                   rdata, rpos, version, fps, id, flushedAt, loadStart, loads>>
    /\ UNCHANGED capVars
    /\ UNCHANGED layVars
    /\ UNCHANGED playVars
    /\ UNCHANGED nap

\* Loader::new(reader), the reader positioned at the start of what is in sink
OpenLoader ==
    /\ loader = "none" /\ origin # "none"
    /\ LET r == LoaderNew(sink) IN
          /\ newResult' = r.res
          /\ loader' = IF r.res.kind = "Ok" THEN "open" ELSE "failed"
          /\ version' = r.version
          /\ fps' = r.fps
          /\ id' = r.id
          /\ rpos' = r.pos
    /\ rdata' = sink
    /\ flushedAt' = (origin = "saver" /\ pending = <<>>)
    /\ UNCHANGED <<saver, saverArgs, pending, sink, saved, origin, foreign,
                   loadStart, loads>>
    /\ UNCHANGED capVars
    /\ UNCHANGED layVars
    /\ UNCHANGED playVars
    /\ UNCHANGED nap

\* Loader::load()
LoadFrame ==
    /\ loader = "open"
    /\ Len(loads) < MaxLoads
    /\ \E o \in Load(rdata, rpos, version) :
          /\ loads' = Append(loads, o.res)
          /\ rpos' = o.pos
    /\ loadStart' = rpos
    /\ UNCHANGED <<saver, saverArgs, pending, sink, saved, origin, foreign,
                   loader, newResult, rdata, version, fps, id, flushedAt>>
    /\ UNCHANGED capVars
    /\ UNCHANGED layVars
    /\ UNCHANGED playVars
    /\ UNCHANGED nap

\* no Saver and no Loader
IoRest ==
    /\ saver = "none"
    /\ saverArgs = <<0, <<>>>>
    /\ pending = <<>>
    /\ saved = <<>>
    /\ origin = "none"
    /\ foreign = 0
    /\ loader = "none"
    /\ newResult = None
    /\ rdata = <<>>
    /\ rpos = 0
    /\ version = 0
    /\ fps = 0
    /\ id = <<>>
    /\ flushedAt = FALSE
    /\ loadStart = 0
    /\ loads = <<>>

IoInit == sink = <<>> /\ IoRest

----------------------------------------------------------------------------
(* Part 2: the capture session of src/src/commands/dump.rs.  connect() and  *)
(* disconnect() are the connectors' own code over the named regions of the  *)
(* simulators; update() is taken by the trait: it returns a snapshot or     *)
(* None.                                                                    *)

\* record: max_no_data
max_no_data == 20

\* no sleep_ms call of a tick loop in progress
NoNap == [on |-> FALSE, ms |-> 0]

\* the times the work of a tick can take, in microseconds: none, 16.5 ms, a
\* second
Elapsed == {0, 16500, 1000 * 1000}

\* the tick loops: tick_ms = 1000.0 / fps as f64, the test elapsed_ms < tick_ms
\* and the argument (tick_ms - elapsed_ms) as u64 of sleep_ms.  In f64 1000.0 /
\* 0.0 is +inf, which is above every elapsed_ms and becomes u64::MAX under "as
\* u64"; a negative fps gives a negative tick_ms, below every elapsed_ms.
TickSleep(f, elapsed_us) ==
    IF f > 0
    THEN IF elapsed_us * f < 1000 * 1000
         THEN [call |-> TRUE, ms |-> (1000 * 1000 - elapsed_us * f) \div (1000 * f)]
         ELSE [call |-> FALSE, ms |-> 0]
    ELSE IF f = 0 THEN [call |-> TRUE, ms |-> Huge]
    ELSE [call |-> FALSE, ms |-> 0]

\* AdaptiveSleeper::sleep_ms(ms): ms - 1 on a u64.  With ms = 0 it panics in
\* a build with overflow checks and wraps to u64::MAX in one without, a sleep
\* of u64::MAX milliseconds that does not end; nor does the one of ms =
\* u64::MAX.
SleepFates(ms) ==
    IF ms = 0 THEN {"panic", "forever"}
    ELSE IF ms = Huge THEN {"forever"}
    ELSE {"return"}

\* wait_for_connection: the argument of sleeper.sleep_ms
WAIT_SLEEP_MS == 1000

\* mutant: the vector built the other way round
Connectors_AcFirst == <<Acsa, Irac>>

\* run: the connectors vector, in its order
Connectors == <<Irac, Acsa>>
NumConnectors == Len(Connectors)

\* the fps values main hands to dump::run (clamped to 1..60)
CaptureFps == {1, 60}

\* the snapshots update() returns
Snapshots == { <<1, 2>>, <<0, 0, 0, 0, 0, 0>> }

\* the names of the regions
IRSDK_MEMMAPFILENAME == "Local\\IRSDKMemMapFileName"
AC_GRAPHICS_SHM == "Local\\acpmf_graphics"
AC_PHYSICS_SHM == "Local\\acpmf_physics"
AC_STATIC_SHM == "Local\\acpmf_static"

\* StatusField::Connected and AC_OFF
Connected == 1
AC_OFF == 0

\* the regions a connector opens, in the order connect() opens them
SourceRegions(sid) ==
    IF sid = Irac THEN <<IRSDK_MEMMAPFILENAME>>
    ELSE <<AC_GRAPHICS_SHM, AC_PHYSICS_SHM, AC_STATIC_SHM>>

\* the status words a simulator leaves in its first region: 0, bit 0 alone
\* (iRacing connected, AC replay), bit 1 alone (AC live)
StatusValues == {0, 1, 2}

\* what a connect() call finds: the regions that exist (the simulator creates
\* them in order) and the status word of the first one
SimEnvs(sid) ==
    LET names == SourceRegions(sid)
    IN  {[present |-> {}, status |-> 0]}
        \cup {[present |-> {names[i] : i \in 1..k}, status |-> s] :
                 k \in 1..Len(names), s \in StatusValues}

\* SharedMemoryReader::open succeeds on a region that exists
CanOpen(name, env) == name \in env.present

\* mutant: any non-zero status word counts as connected
IsConnected_NonZero(status) == status # 0

\* Header::is_connected: status & Connected != 0
IsConnected(status) == (status \div Connected) % 2 = 1

\* IRacingConnector::connect: the reader is a local until the status test has
\* passed; returning false drops it
IRacingConnect(fields, env) ==
    IF CanOpen(IRSDK_MEMMAPFILENAME, env)
    THEN IF IsConnected(env.status)
         THEN [ret |-> TRUE, fields |-> {IRSDK_MEMMAPFILENAME}]
         ELSE [ret |-> FALSE, fields |-> fields]
    ELSE [ret |-> FALSE, fields |-> fields]

\* AssettoCorsaConnector::connect: the three readers are locals until the
\* status test has passed; every early return drops the ones opened so far
AssettoCorsaConnect(fields, env) ==
    IF ~CanOpen(AC_GRAPHICS_SHM, env) THEN [ret |-> FALSE, fields |-> fields]
    ELSE IF ~CanOpen(AC_PHYSICS_SHM, env) THEN [ret |-> FALSE, fields |-> fields]
    ELSE IF ~CanOpen(AC_STATIC_SHM, env) THEN [ret |-> FALSE, fields |-> fields]
    ELSE IF env.status = AC_OFF THEN [ret |-> FALSE, fields |-> fields]
    ELSE [ret |-> TRUE,
          fields |-> {AC_GRAPHICS_SHM, AC_PHYSICS_SHM, AC_STATIC_SHM}]

\* Connector::connect of the connector whose id() is sid
Connect(sid, fields, env) ==
    IF sid = Irac THEN IRacingConnect(fields, env)
    ELSE AssettoCorsaConnect(fields, env)

\* Connector::disconnect, the same in both connectors: every field is None
Disconnect(fields) == {}

\* mutant: a guard without a Drop implementation
DropGuard_NoDisconnect(regs, g) == regs

\* ConnectorGuard::drop: disconnect() on the wrapped connector
DropGuard(regs, g) == [regs EXCEPT ![g] = Disconnect(regs[g])]

\* std::str::from_utf8 on a 4-byte id, for ids of ASCII bytes
Utf8Valid(sid) == \A i \in 1..Len(sid) : sid[i] < 128

\* mutant: disconnect as soon as the count reaches max_no_data
TooManyEmpty_AtThreshold(count) == count >= max_no_data

\* record: the disconnect test on the incremented no_data_count
TooManyEmpty(count) == count > max_no_data

\* a failed write_all / write_u32 sequence of Saver::save leaves a prefix of the
\* record in the writer, cut where one of its writes begins
PartialRecords(data) ==
    {SubSeq(SaverRecord(data), 1, n) : n \in {0, 4, 8, 12}}

\* dropping the Saver drops its BufWriter, which tries to flush and ignores
\* a failure: what is in the file afterwards
DropWriter(dst, buf) == {dst, FlushInto(dst, buf)}

\* mutant: a round without a connection gives up
AfterFailedRound_GiveUp == "done"

\* wait_for_connection: after a round in which no connect() succeeded the
\* while loop goes round again
AfterFailedRound == "wait"

\* mutant: run reports a failed save as the end of the source
SaveFailedResult_Ok == "Ok(SimDisconnected)"

\* run: record(...)? hands the SavingFrameFailed of record on as run's own
\* result
SaveFailedResult == "Err(SavingFrameFailed)"

\* mutant: the loops never look at the flag
SeesQuit_Never(flag) == FALSE

\* mutant: run returns what record() returned without a flush
AfterRecord_Return == "done"

\* run: record() returned Ok, saver.flush() comes next
AfterRecord == "flush"

\* the test of the while loops: quit_flag.load(Ordering::Relaxed)
SeesQuit(flag) == flag

\* mutant: the handler flips the flag
Stored_Flipped(flag) == ~flag

\* the signal handler: should_quit.store(true, Ordering::Relaxed), the flag
\* after it whatever it held before
Stored(flag) == TRUE

\* the command that is running and where it is
Running == IF ppc # "off" THEN <<"play", ppc>> ELSE <<"dump", cpc>>

\* the signal handler, which runs at every Ctrl+C while the process lives
SignalQuit ==
    /\ Running[2] \notin {"done", "dead"}
    /\ quit_flag' = Stored(quit_flag)
    /\ quitAt' = IF quit_flag THEN quitAt ELSE Running
    /\ UNCHANGED <<cpc, dfps, probe, guard, held, no_data_count, recResult,
                   result, flushes, emptyRun, resetSeen, regions, attempts,
                   slept, outFile>>
    /\ UNCHANGED ioVars
    /\ UNCHANGED playVars
    /\ UNCHANGED layVars
    /\ UNCHANGED nap

\* wait_for_connection: the test of the while loop
WaitCheck ==
    /\ cpc = "wait"
    /\ IF SeesQuit(quit_flag)
       THEN \* returns None; run returns Ok(QuitRequested)
            /\ cpc' = "done"
            /\ result' = "Ok(QuitRequested)"
            /\ UNCHANGED <<probe, attempts>>
       ELSE /\ cpc' = "probe"
            /\ probe' = 1
            /\ attempts' = <<>>
            /\ UNCHANGED result
    /\ UNCHANGED <<quit_flag, dfps, guard, held, no_data_count, recResult,
                   flushes, emptyRun, resetSeen, regions, slept, outFile, quitAt>>
    /\ UNCHANGED ioVars
    /\ UNCHANGED playVars
    /\ UNCHANGED layVars
    /\ UNCHANGED nap

\* wait_for_connection: connectors[i].connect() in the for loop
ConnectAttempt ==
    /\ cpc = "probe"
    /\ probe <= NumConnectors
    /\ \E env \in SimEnvs(Connectors[probe]) :
          LET c == Connect(Connectors[probe], regions[probe], env)
          IN  /\ regions' = [regions EXCEPT ![probe] = c.fields]
              /\ attempts' = Append(attempts, [id |-> Connectors[probe],
                                               env |-> env, ret |-> c.ret])
              /\ IF c.ret
                 THEN /\ held' = held \cup {probe}
                      /\ guard' = probe
                      /\ cpc' = "connected"
                      /\ UNCHANGED probe
                 ELSE /\ probe' = probe + 1
                      /\ UNCHANGED <<held, guard, cpc>>
    /\ UNCHANGED <<quit_flag, dfps, no_data_count, recResult, result, flushes,
                   emptyRun, resetSeen, slept, outFile, quitAt>>
    /\ UNCHANGED ioVars
    /\ UNCHANGED playVars
    /\ UNCHANGED layVars
    /\ UNCHANGED nap

\* wait_for_connection: no connector connected, sleeper.sleep_ms(1000)
WaitSleep ==
    /\ cpc = "probe"
    /\ probe > NumConnectors
    /\ slept' = WAIT_SLEEP_MS
    /\ cpc' = AfterFailedRound
    /\ UNCHANGED <<quit_flag, dfps, probe, guard, held, no_data_count, recResult,
                   result, flushes, emptyRun, resetSeen, regions, attempts,
                   outFile, quitAt>>
    /\ UNCHANGED ioVars
    /\ UNCHANGED playVars
    /\ UNCHANGED layVars
    /\ UNCHANGED nap

\* run, from connector.id() to Saver::new: the output file and its Saver.  An
\* early return drops the ConnectorGuard, which disconnects.
OpenOutput ==
    /\ cpc = "connected"
    /\ LET sid == Connectors[guard]
           fail(e) == /\ result' = e
                      /\ cpc' = "done"
                      /\ held' = held \ {guard}
                      /\ regions' = DropGuard(regions, guard)
                      /\ guard' = 0
                      /\ UNCHANGED <<saver, saverArgs, pending, origin>>
       IN  IF ~Utf8Valid(sid)
           THEN fail("Err(InvalidSimId)") /\ UNCHANGED outFile
           ELSE \E outcome \in {"Err(CreateFileError)", "Err(SaverInitError)", "ok"} :
                  /\ outFile' = IF outcome = "Err(CreateFileError)"
                                THEN outFile ELSE "created"
                  /\ IF outcome # "ok" THEN fail(outcome)
                     ELSE /\ saver' = "open"
                          /\ saverArgs' = <<dfps, sid>>
                          /\ pending' = SaverHeader(dfps, sid)
                          /\ origin' = "saver"
                          /\ cpc' = "tick"
                          /\ UNCHANGED <<result, held, guard, regions>>
    /\ UNCHANGED <<quit_flag, dfps, probe, no_data_count, recResult, flushes,
                   emptyRun, resetSeen, attempts, slept, quitAt>>
    /\ UNCHANGED <<sink, saved>>
    /\ UNCHANGED loaderVars
    /\ UNCHANGED playVars
    /\ UNCHANGED layVars
    /\ UNCHANGED nap

\* record: the test of the while loop.  Returning drops the ConnectorGuard
\* record() took by value.
RecordTick ==
    /\ cpc = "tick"
    /\ IF SeesQuit(quit_flag)
       THEN /\ recResult' = "QuitRequested"
            /\ cpc' = AfterRecord
            /\ held' = held \ {guard}
            /\ regions' = DropGuard(regions, guard)
            /\ guard' = 0
       ELSE /\ cpc' = "poll"
            /\ UNCHANGED <<recResult, held, guard, regions>>
    /\ UNCHANGED <<quit_flag, dfps, probe, no_data_count, result, flushes,
                   emptyRun, resetSeen, attempts, slept, outFile, quitAt>>
    /\ UNCHANGED ioVars
    /\ UNCHANGED playVars
    /\ UNCHANGED layVars
    /\ UNCHANGED nap

\* record: connector.update() returned Some(data), saver.save(&data)
PollData ==
    /\ cpc = "poll"
    /\ Len(saved) < MaxFrames
    /\ no_data_count' = 0
    /\ emptyRun' = 0
    /\ resetSeen' = (resetSeen \/ emptyRun > 0)
    /\ \E data \in Snapshots :
          \/ /\ pending' = pending \o SaverRecord(data)
             /\ saved' = Append(saved, data)
             /\ cpc' = "sleep"
             /\ UNCHANGED <<recResult, result, held, guard, regions, sink>>
          \/ \* save failed: record returns the error and run returns it
             /\ \E part \in PartialRecords(data), s \in DropWriter(sink, pending) :
                   /\ pending' = part
                   /\ sink' = s
             /\ recResult' = "SavingFrameFailed"
             /\ result' = SaveFailedResult
             /\ cpc' = "done"
             /\ held' = held \ {guard}
             /\ regions' = DropGuard(regions, guard)
             /\ guard' = 0
             /\ UNCHANGED saved
    /\ UNCHANGED <<quit_flag, dfps, probe, flushes, attempts, slept, outFile,
                   quitAt>>
    /\ UNCHANGED <<saver, saverArgs, origin>>
    /\ UNCHANGED loaderVars
    /\ UNCHANGED playVars
    /\ UNCHANGED layVars
    /\ UNCHANGED nap

\* record: connector.update() returned None
PollEmpty ==
    /\ cpc = "poll"
    /\ no_data_count' = no_data_count + 1
    /\ emptyRun' = emptyRun + 1
    /\ IF TooManyEmpty(no_data_count')
       THEN /\ recResult' = "SimDisconnected"
            /\ cpc' = AfterRecord
            /\ held' = held \ {guard}
            /\ regions' = DropGuard(regions, guard)
            /\ guard' = 0
       ELSE /\ cpc' = "sleep"
            /\ UNCHANGED <<recResult, held, guard, regions>>
    /\ UNCHANGED <<quit_flag, dfps, probe, result, flushes, resetSeen, attempts,
                   slept, outFile, quitAt>>
    /\ UNCHANGED ioVars
    /\ UNCHANGED playVars
    /\ UNCHANGED layVars
    /\ UNCHANGED nap

\* record: elapsed_ms < tick_ms and the call of sleep_ms for the rest of the
\* tick, the work of the tick done after any of the times of Elapsed
RecordSleep ==
    /\ cpc = "sleep"
    /\ \E elapsed_us \in Elapsed :
          LET s == TickSleep(dfps, elapsed_us)
          IN  IF s.call
              THEN cpc' = "sleep_ms" /\ nap' = [on |-> TRUE, ms |-> s.ms]
              ELSE cpc' = "tick" /\ nap' = NoNap
    /\ UNCHANGED <<quit_flag, dfps, probe, guard, held, no_data_count, recResult,
                   result, flushes, emptyRun, resetSeen, regions, attempts,
                   slept, outFile, quitAt>>
    /\ UNCHANGED ioVars
    /\ UNCHANGED playVars
    /\ UNCHANGED layVars

\* record: AdaptiveSleeper::sleep_ms returns, sleeps for ever, or panics; the
\* panic unwinds record and run, which drops the guard and the Saver
RecordSleepMs ==
    /\ cpc = "sleep_ms"
    /\ nap' = NoNap
    /\ \E fate \in SleepFates(nap.ms) :
          IF fate = "return"
          THEN /\ cpc' = "tick"
               /\ UNCHANGED <<result, held, regions, guard, sink>>
          ELSE IF fate = "forever"
          THEN /\ cpc' = "asleep"
               /\ UNCHANGED <<result, held, regions, guard, sink>>
          ELSE /\ cpc' = "dead"
               /\ result' = "panic"
               /\ held' = held \ {guard}
               /\ regions' = DropGuard(regions, guard)
               /\ guard' = 0
               /\ \E s \in DropWriter(sink, pending) : sink' = s
    /\ UNCHANGED <<quit_flag, dfps, probe, no_data_count, recResult, flushes,
                   emptyRun, resetSeen, attempts, slept, outFile, quitAt>>
    /\ UNCHANGED <<saver, saverArgs, pending, saved, origin>>
    /\ UNCHANGED loaderVars
    /\ UNCHANGED playVars
    /\ UNCHANGED layVars

\* run: saver.flush() after record() returned Ok, then the return
FlushOutput ==
    /\ cpc = "flush"
    /\ flushes' = flushes + 1
    /\ \/ /\ sink' = FlushInto(sink, pending)
          /\ pending' = <<>>
          /\ result' = IF recResult = "SimDisconnected"
                        THEN "Ok(SimDisconnected)" ELSE "Ok(QuitRequested)"
       \/ /\ \E s \in DropWriter(sink, pending) : sink' = s
          /\ result' = "Err(FlushFailed)"
          /\ UNCHANGED pending
    /\ cpc' = "done"
    /\ UNCHANGED <<quit_flag, dfps, probe, guard, held, no_data_count, recResult,
                   emptyRun, resetSeen, regions, attempts, slept, outFile, quitAt>>
    /\ UNCHANGED <<saver, saverArgs, saved, origin>>
    /\ UNCHANGED loaderVars
    /\ UNCHANGED playVars
    /\ UNCHANGED layVars
    /\ UNCHANGED nap

\* no dump::run has done anything
CaptureRest ==
    /\ quit_flag = FALSE
    /\ probe = 1
    /\ guard = 0
    /\ held = {}
    /\ no_data_count = 0
    /\ recResult = "none"
    /\ result = "none"
    /\ flushes = 0
    /\ emptyRun = 0
    /\ resetSeen = FALSE
    /\ regions = [i \in 1..NumConnectors |-> {}]
    /\ attempts = <<>>
    /\ slept = 0
    /\ outFile = "none"
    /\ quitAt = <<"none", "none">>

CaptureIdle == cpc = "wait" /\ CaptureRest

----------------------------------------------------------------------------
(* Part 3: the frame layouts of src/src/sims/*/data.rs and the players of   *)
(* src/src/sims/*/player.rs.  A region a player created is the sequence of  *)
(* the bytes from its start to the last byte written since its creation;    *)
(* every byte after that is the 0 SharedMemoryWriter::create put there.     *)

\* iracing/data.rs: sizes of Header and VarHeader, IRSDK_MAX_BUFS
HEADER_SIZE == 112
VAR_HEADER_SIZE == 144
IRSDK_MAX_BUFS == 4

\* assettocorsa/data.rs: size_of of the three pages and FRAME_SIZE
GRAPHICS_PADDED_SIZE == 2048
PHYSICS_PADDED_SIZE == 1024
STATIC_PADDED_SIZE == 2048
FRAME_SIZE == GRAPHICS_PADDED_SIZE + PHYSICS_PADDED_SIZE + STATIC_PADDED_SIZE

\* offset_of!(Header, status) and offset_of!(GraphicsPage, status)
HEADER_STATUS_OFFSET == 4
GRAPHICS_STATUS_OFFSET == 4

\* iracing/player.rs: the event the player creates
IRSDK_DATAVALIDEVENTNAME == "Local\\IRSDKDataValidEvent"

\* i32::to_ne_bytes on the little-endian target the program is built for
NeBytes(v) == LE32(v)

\* the i32 field number k (from 0) of a Header
HeaderField(h, k) == I32(SubSeq(h, 4 * k + 1, 4 * k + 4))
status_of(h) == HeaderField(h, 1)
session_info_len_of(h) == HeaderField(h, 4)
session_info_offset(h) == HeaderField(h, 5)
num_vars(h) == HeaderField(h, 6)
var_header_offset(h) == HeaderField(h, 7)
num_buf(h) == HeaderField(h, 8)
tick_count(h, i) == HeaderField(h, 12 + 4 * i)
buf_offset(h, i) == HeaderField(h, 13 + 4 * i)

\* mutant: a later buffer with the same tick count is taken
RECURSIVE LatestFrom_LastOfEqual(_, _, _)
LatestFrom_LastOfEqual(h, i, latest) ==
    IF i >= num_buf(h) THEN latest
    ELSE LatestFrom_LastOfEqual(h, i + 1,
                    IF tick_count(h, i) >= tick_count(h, latest) THEN i ELSE latest)

\* Header::latest_buf_index, for 0 <= num_buf <= IRSDK_MAX_BUFS: the loop over
\* i in 1..num_buf with latest = 0 at its start
RECURSIVE LatestFrom(_, _, _)
LatestFrom(h, i, latest) ==
    IF i >= num_buf(h) THEN latest
    ELSE LatestFrom(h, i + 1,
                    IF tick_count(h, i) > tick_count(h, latest) THEN i ELSE latest)
latest_buf_index(h) == LatestFrom(h, 1, 0)

\* read_u64::<LittleEndian>() as usize
U64(b) == IF SubSeq(b, 5, 8) = <<0, 0, 0, 0>> THEN U32(SubSeq(b, 1, 4)) ELSE Huge

\* write_u64::<LittleEndian>(n as u64), n < 2^31
LE64(n) == LE32(n) \o <<0, 0, 0, 0>>

\* String::from_utf8_lossy(..).to_string().as_bytes(), for bytes that are
\* ASCII or 0xFF: an 0xFF byte is never part of UTF-8 and becomes U+FFFD
RECURSIVE Utf8Lossy(_)
Utf8Lossy(b) ==
    IF b = <<>> THEN <<>>
    ELSE (IF b[1] = 255 THEN <<239, 191, 189>> ELSE <<b[1]>>) \o Utf8Lossy(Tail(b))

\* iracing FrameData::serialize; session_info is <<>> for None
IRacingSerialize(f) ==
    LET RECURSIVE Cat(_)
        Cat(q) == IF q = <<>> THEN <<>> ELSE q[1] \o Cat(Tail(q))
    IN  f.header \o Cat(f.var_headers)
          \o LE64(Len(f.session_info)) \o f.session_info
          \o LE64(Len(f.raw_data)) \o f.raw_data

\* iracing FrameData::deserialize, for num_vars >= 0: the frame, or the
\* failure of a read
IRacingDeserialize(bytes) ==
    LET bad == [ok |-> FALSE, header |-> <<>>, var_headers |-> <<>>,
                has_info |-> FALSE, session_info |-> <<>>, raw_data |-> <<>>]
    IN  IF ~CanRead(bytes, 0, HEADER_SIZE) THEN bad
        ELSE
        LET header == Bytes(bytes, 0, HEADER_SIZE)
            n == num_vars(header)
            p1 == HEADER_SIZE + n * VAR_HEADER_SIZE
        IN  IF n > (Len(bytes) - HEADER_SIZE) \div VAR_HEADER_SIZE THEN bad
            ELSE IF ~CanRead(bytes, p1, 8) THEN bad
            ELSE
            LET session_info_len == U64(Bytes(bytes, p1, 8))
                p2 == p1 + 8
            IN  IF ~CanRead(bytes, p2, session_info_len) THEN bad
                ELSE
                LET p3 == p2 + session_info_len
                IN  IF ~CanRead(bytes, p3, 8) THEN bad
                    ELSE
                    LET raw_data_len == U64(Bytes(bytes, p3, 8))
                    IN  IF ~CanRead(bytes, p3 + 8, raw_data_len) THEN bad
                        ELSE [ok |-> TRUE,
                              header |-> header,
                              var_headers |->
                                 [i \in 1..n |->
                                    Bytes(bytes, HEADER_SIZE + (i - 1) * VAR_HEADER_SIZE,
                                          VAR_HEADER_SIZE)],
                              has_info |-> session_info_len > 0,
                              session_info |->
                                 Utf8Lossy(Bytes(bytes, p2, session_info_len)),
                              raw_data |-> Bytes(bytes, p3 + 8, raw_data_len)]

\* mutant: the physics page is read from where the graphics page starts
AssettoCorsaDeserialize_PhysicsAtZero(bytes) ==
    IF Len(bytes) < FRAME_SIZE
    THEN [ok |-> FALSE, graphics |-> <<>>, physics |-> <<>>, statics |-> <<>>]
    ELSE [ok |-> TRUE,
          graphics |-> Bytes(bytes, 0, GRAPHICS_PADDED_SIZE),
          physics |-> Bytes(bytes, 0, PHYSICS_PADDED_SIZE),
          statics |-> Bytes(bytes, GRAPHICS_PADDED_SIZE + PHYSICS_PADDED_SIZE,
                            STATIC_PADDED_SIZE)]

\* assettocorsa FrameData::deserialize: the three pages, or the failure of
\* the length test
AssettoCorsaDeserialize(bytes) ==
    IF Len(bytes) < FRAME_SIZE
    THEN [ok |-> FALSE, graphics |-> <<>>, physics |-> <<>>, statics |-> <<>>]
    ELSE [ok |-> TRUE,
          graphics |-> Bytes(bytes, 0, GRAPHICS_PADDED_SIZE),
          physics |-> Bytes(bytes, GRAPHICS_PADDED_SIZE, PHYSICS_PADDED_SIZE),
          statics |-> Bytes(bytes, GRAPHICS_PADDED_SIZE + PHYSICS_PADDED_SIZE,
                            STATIC_PADDED_SIZE)]

\* SharedMemoryWriter::write(offset, data) inside the region
ShmWrite(mem, offset, data) ==
    LET size == Len(mem)
        len == Len(data)
        top == IF offset + len > size THEN offset + len ELSE size
    IN  [i \in 1..top |->
            IF i > offset /\ i <= offset + len THEN data[i - offset]
            ELSE IF i <= size THEN mem[i] ELSE 0]

\* the bytes at offset .. offset + n - 1 of a region
ShmRead(mem, offset, n) ==
    LET size == Len(mem)
    IN  [i \in 1..n |-> IF offset + i <= size THEN mem[offset + i] ELSE 0]

\* the players: kind "irac" | "acsa", held = the objects whose handles the
\* fields of the player hold
PlayerObjects(kind) ==
    IF kind = "irac" THEN <<IRSDK_MEMMAPFILENAME, IRSDK_DATAVALIDEVENTNAME>>
    ELSE <<AC_GRAPHICS_SHM, AC_PHYSICS_SHM, AC_STATIC_SHM>>

\* the region stop() writes the off value to
StatusRegion(kind) == PlayerObjects(kind)[1]

\* the regions among the objects (the event has no memory)
IsRegion(name) == name # IRSDK_DATAVALIDEVENTNAME

\* IRacingPlayer::new, AssettoCorsaPlayer::new
NewPlayer(kind) == [kind |-> kind, held |-> {}]

\* the objects initialize() creates before it returns: all of them, or those
\* before the first whose creation fails.  fails = the objects that cannot be
\* created.
Created(kind, fails) ==
    LET names == PlayerObjects(kind)
    IN  {names[i] : i \in {k \in 1..Len(names) :
                             \A j \in 1..k : names[j] \notin fails}}

\* mutant: the locals of a call that fails stay open
Released_Leak(locals) == {}

\* the locals that are dropped when a create() returns its error through ?:
\* all that were created before it, and Drop closes the handle of each
Released(locals) == locals

\* Player::initialize of both players: the objects are created in order into
\* locals, create() fills a region with zeros; the first create() that fails
\* returns the error through ? and the locals created before it are dropped;
\* the fields are set after the last create().  made = the objects created,
\* open = those of them whose handle is open when the call returns.
PlayerInitialize(p, mem, fails) ==
    LET names == PlayerObjects(p.kind)
        all == {names[i] : i \in 1..Len(names)}
        made == Created(p.kind, fails)
    IN  [ok |-> made = all,
         player |-> IF made = all THEN [p EXCEPT !.held = all] ELSE p,
         mem |-> [n \in DOMAIN mem |-> IF n \in made THEN <<>> ELSE mem[n]],
         made |-> made,
         open |-> IF made = all THEN all ELSE made \ Released(made)]

\* assettocorsa FrameData::serialize: a buffer of FRAME_SIZE zeros with the
\* bytes of the three pages copied in.  A page is the size_of bytes of its
\* struct.
AssettoCorsaSerialize(f) ==
    LET buffer == Zeros(FRAME_SIZE)
        b1 == ShmWrite(buffer, 0, f.graphics)
        b2 == ShmWrite(b1, GRAPHICS_PADDED_SIZE, f.physics)
    IN  ShmWrite(b2, GRAPHICS_PADDED_SIZE + PHYSICS_PADDED_SIZE, f.statics)

\* GraphicsPage.status of the bytes of a graphics page
GraphicsStatus(g) == I32(SubSeq(g, 5, 8))

\* AssettoCorsaConnector::update over the regions of the simulator: None when
\* the connector holds no reader or the status is AC_OFF, else the frame that
\* holds the first size_of bytes of each region
AssettoCorsaConnectorUpdate(connected, src) ==
    LET graphics == ShmRead(src.graphics, 0, GRAPHICS_PADDED_SIZE)
    IN  IF ~connected \/ GraphicsStatus(graphics) = AC_OFF
        THEN [some |-> FALSE, data |-> <<>>]
        ELSE [some |-> TRUE,
              data |-> AssettoCorsaSerialize(
                          [graphics |-> graphics,
                           physics |-> ShmRead(src.physics, 0, PHYSICS_PADDED_SIZE),
                           statics |-> ShmRead(src.statics, 0, STATIC_PADDED_SIZE)])]

\* a u64 length that "as usize" takes beyond isize::MAX
BeyondIsizeMax(b) == b[8] >= 128

\* how a call of iracing FrameData::deserialize ends: "return" (Ok or Err),
\* "panic" (capacity overflow: Vec::with_capacity of a negative num_vars as
\* usize, vec![0u8; n] with n > isize::MAX), "abort" (the allocator refuses a
\* request of 2 GiB or more, which it may or may not do).  The buffers are
\* allocated from the lengths read, before the bytes they are to hold are read.
IRacingDeserializeFates(bytes) ==
    IF ~CanRead(bytes, 0, HEADER_SIZE) THEN {"return"}
    ELSE
    LET n == num_vars(Bytes(bytes, 0, HEADER_SIZE))
        p1 == HEADER_SIZE + n * VAR_HEADER_SIZE
    IN  IF n < 0 THEN {"panic"}
        ELSE IF n > Huge \div VAR_HEADER_SIZE THEN {"return", "abort"}
        ELSE IF n > (Len(bytes) - HEADER_SIZE) \div VAR_HEADER_SIZE THEN {"return"}
        ELSE IF ~CanRead(bytes, p1, 8) THEN {"return"}
        ELSE IF BeyondIsizeMax(Bytes(bytes, p1, 8)) THEN {"panic"}
        ELSE
        LET session_info_len == U64(Bytes(bytes, p1, 8))
            p3 == p1 + 8 + session_info_len
        IN  IF session_info_len = Huge THEN {"return", "abort"}
            ELSE IF ~CanRead(bytes, p1 + 8, session_info_len) THEN {"return"}
            ELSE IF ~CanRead(bytes, p3, 8) THEN {"return"}
            ELSE IF BeyondIsizeMax(Bytes(bytes, p3, 8)) THEN {"panic"}
            ELSE IF U64(Bytes(bytes, p3, 8)) = Huge THEN {"return", "abort"}
            ELSE {"return"}

\* iracing/player.rs: DEFAULT_SHM_SIZE, 1024 * 1024 * 1024
DEFAULT_SHM_SIZE == 1073741824

\* assettocorsa/data.rs: SHM_SIZE
SHM_SIZE == 2048

\* the size a player creates a region with
RegionSize(name) == IF name = IRSDK_MEMMAPFILENAME THEN DEFAULT_SHM_SIZE ELSE SHM_SIZE

\* an i32 offset "as usize": a negative one is sign-extended beyond 2^63
AsUsize(v) == IF v < 0 THEN Huge ELSE v

\* a write(offset, data) call: the region, the offset and the bytes
Write(region, offset, data) ==
    [region |-> region, offset |-> offset, len |-> Len(data), data |-> data]

\* what is kept of a write call in the history
Entry(w) == [region |-> w.region, offset |-> w.offset, len |-> w.len]

\* offset + data.len() <= size, what SharedMemoryWriter::write takes for
\* granted (its debug_assert)
InBounds(w) == w.len <= RegionSize(w.region) - w.offset

\* the write calls of a list that are made: all of them, or those up to the
\* first that is not inside its region; what comes after that one is not
\* defined
Issued(ws) ==
    LET bad == {i \in 1..Len(ws) : ~InBounds(ws[i])}
        n == IF bad = {} THEN Len(ws) ELSE CHOOSE i \in bad : \A j \in bad : i <= j
    IN  [i \in 1..n |-> Entry(ws[i])]

\* the regions after the write calls of a list that are inside their regions
\* and come before the first that is not
RECURSIVE ApplyWrites(_, _, _)
ApplyWrites(mem, ws, i) ==
    IF i > Len(ws) \/ ~InBounds(ws[i]) THEN mem
    ELSE ApplyWrites([mem EXCEPT ![ws[i].region] = ShmWrite(@, ws[i].offset, ws[i].data)],
                     ws, i + 1)

\* what update() and stop() give: ok = Ok(()) when the call returns, the
\* regions, the write calls made, and how the call can end: "return", "panic"
\* (a panic of the code, or the debug_assert of write in a build with debug
\* assertions), "abort", "undefined" (a write outside the region in a build
\* without debug assertions)
Refused(mem) == [ok |-> FALSE, mem |-> mem, log |-> <<>>, fates |-> {"return"}]
Wrote(mem, ws) ==
    [ok |-> TRUE, mem |-> ApplyWrites(mem, ws, 1), log |-> Issued(ws),
     fates |-> IF \A i \in 1..Len(ws) : InBounds(ws[i]) THEN {"return"}
               ELSE {"panic", "undefined"}]

\* the write calls IRacingPlayer::update makes for a frame, in order: header,
\* raw data at the offset of the latest buffer, var headers, session info if
\* the frame has one
IRacingWrites(frame) ==
    LET h == frame.header
    IN  << Write(IRSDK_MEMMAPFILENAME, 0, h),
           Write(IRSDK_MEMMAPFILENAME,
                 AsUsize(buf_offset(h, latest_buf_index(h))), frame.raw_data) >>
        \o [i \in 1..Len(frame.var_headers) |->
              Write(IRSDK_MEMMAPFILENAME,
                    IF var_header_offset(h) < 0 THEN Huge
                    ELSE var_header_offset(h) + (i - 1) * VAR_HEADER_SIZE,
                    frame.var_headers[i])]
        \o (IF frame.has_info
            THEN << Write(IRSDK_MEMMAPFILENAME, AsUsize(session_info_offset(h)),
                          frame.session_info) >>
            ELSE <<>>)

\* Header::latest_buf_index indexes var_buf[i] for i in 1..num_buf as usize:
\* with num_buf above IRSDK_MAX_BUFS, or negative and so huge as usize, the
\* index passes the end of the array, which panics
LatestPanics(h) == num_buf(h) > IRSDK_MAX_BUFS \/ num_buf(h) < 0

\* IRacingPlayer::update: Err without the region or when deserialize returns
\* Err; deserialize and latest_buf_index may not return at all
IRacingUpdate(p, mem, data) ==
    IF IRSDK_MEMMAPFILENAME \notin p.held THEN Refused(mem)
    ELSE IF IRacingDeserializeFates(data) # {"return"}
    THEN [Refused(mem) EXCEPT !.fates = IRacingDeserializeFates(data)]
    ELSE
    LET frame == IRacingDeserialize(data)
    IN  IF ~frame.ok THEN Refused(mem)
        ELSE IF LatestPanics(frame.header)
        THEN [Refused(mem) EXCEPT !.fates = {"panic"}]
        ELSE Wrote(mem, IRacingWrites(frame))

\* mutant: the pages go into one region, at the offsets they have in a frame
AssettoCorsaWrites_OneRegion(frame) ==
    << Write(AC_GRAPHICS_SHM, 0, frame.graphics),
       Write(AC_GRAPHICS_SHM, GRAPHICS_PADDED_SIZE, frame.physics),
       Write(AC_GRAPHICS_SHM, GRAPHICS_PADDED_SIZE + PHYSICS_PADDED_SIZE,
             frame.statics) >>

\* mutant: the physics page goes to the static region and the static page to
\* the physics region
AssettoCorsaWrites_Swapped(frame) ==
    << Write(AC_GRAPHICS_SHM, 0, frame.graphics),
       Write(AC_STATIC_SHM, 0, frame.physics),
       Write(AC_PHYSICS_SHM, 0, SubSeq(frame.statics, 1, PHYSICS_PADDED_SIZE)) >>

\* the write calls AssettoCorsaPlayer::update makes for a frame: the three
\* pages, each at offset 0 of its region
AssettoCorsaWrites(frame) ==
    << Write(AC_GRAPHICS_SHM, 0, frame.graphics),
       Write(AC_PHYSICS_SHM, 0, frame.physics),
       Write(AC_STATIC_SHM, 0, frame.statics) >>

\* AssettoCorsaPlayer::update
AssettoCorsaUpdate(p, mem, data) ==
    LET frame == AssettoCorsaDeserialize(data)
    IN  IF \/ {AC_GRAPHICS_SHM, AC_PHYSICS_SHM, AC_STATIC_SHM} \cap p.held
                 # {AC_GRAPHICS_SHM, AC_PHYSICS_SHM, AC_STATIC_SHM}
           \/ ~frame.ok
        THEN Refused(mem)
        ELSE Wrote(mem, AssettoCorsaWrites(frame))

\* Player::update of the player p
PlayerUpdate(p, mem, data) ==
    IF p.kind = "irac" THEN IRacingUpdate(p, mem, data)
    ELSE AssettoCorsaUpdate(p, mem, data)

\* the offset of the status word in the region stop() writes to
StatusOffset(kind) ==
    IF kind = "irac" THEN HEADER_STATUS_OFFSET ELSE GRAPHICS_STATUS_OFFSET

\* the off value stop() writes: disconnected (0) and AC_OFF
OffValue(kind) == IF kind = "irac" THEN 0 ELSE AC_OFF

\* mutant: the fields are cleared before the test for the region
PlayerStop_ReleaseFirst(p, mem) ==
    [player |-> [p EXCEPT !.held = {}], mem |-> mem, log |-> <<>>]

\* Player::stop of both players: the off value goes into the status word if
\* the region is held; then every field is None, which drops the handles
PlayerStop(p, mem) ==
    LET r == StatusRegion(p.kind)
        ws == IF r \in p.held
              THEN << Write(r, StatusOffset(p.kind), NeBytes(OffValue(p.kind))) >>
              ELSE <<>>
    IN  [player |-> [p EXCEPT !.held = {}],
         mem |-> ApplyWrites(mem, ws, 1),
         log |-> Issued(ws)]

\* dropping the Box<dyn Player>: the fields are dropped, nothing is written
PlayerDrop(p) == [p EXCEPT !.held = {}]

\* IRacingConnector::read_session_info over a region with the header h: the
\* session_info_len bytes at session_info_offset up to the first 0
ReadSessionInfo(mem, h) ==
    LET slice == ShmRead(mem, session_info_offset(h), session_info_len_of(h))
        zeros == {i \in 1..Len(slice) : slice[i] = 0}
        len == IF zeros = {} THEN Len(slice)
               ELSE (CHOOSE i \in zeros : \A j \in zeros : i <= j) - 1
    IN  Utf8Lossy(SubSeq(slice, 1, len))

\* the largest tick count of the headers given to latest_buf_index
MaxTick == 1

\* the bytes of a Header (repr(C), twelve i32 and four VarBuf, no padding
\* between them) with these fields; bufs = the four (tick_count, buf_offset)
Header(f) ==
    LET RECURSIVE VarBufs(_)
        VarBufs(i) ==
            IF i > IRSDK_MAX_BUFS THEN <<>>
            ELSE LE32(f.bufs[i][1]) \o LE32(f.bufs[i][2]) \o LE32(0) \o LE32(0)
                   \o VarBufs(i + 1)
    IN  LE32(2) \o LE32(f.status) \o LE32(60)
          \o LE32(f.session_info_update) \o LE32(f.session_info_len)
          \o LE32(f.session_info_offset)
          \o LE32(f.num_vars) \o LE32(f.var_header_offset)
          \o LE32(f.num_buf) \o LE32(f.buf_len) \o LE32(0) \o LE32(0)
          \o VarBufs(1)

\* the fields of the header of a live session with n variables: the var
\* headers follow the header, the session info follows them, two buffers
\* follow the session info and the second is the latest
LiveFields(n) ==
    [status |-> Connected, session_info_update |-> 1, session_info_len |-> 4,
     session_info_offset |-> HEADER_SIZE + n * VAR_HEADER_SIZE,
     num_vars |-> n, var_header_offset |-> HEADER_SIZE,
     num_buf |-> 2, buf_len |-> 4,
     bufs |-> << <<1, HEADER_SIZE + n * VAR_HEADER_SIZE + 16>>,
                 <<2, HEADER_SIZE + n * VAR_HEADER_SIZE + 24>>,
                 <<0, 0>>, <<0, 0>> >>]

\* the bytes of the k-th VarHeader: var_type, offset, count, count_as_time
\* and pad, name, desc, unit
VarHeader(k) ==
    LE32(2) \o LE32(4 * (k - 1)) \o LE32(1) \o Zeros(4)
      \o <<71, 101, 97, 114, 48 + k>> \o Zeros(27) \o Zeros(64)
      \o <<110>> \o Zeros(31)

\* session_info: None, Some(""), Some("a: 1"), Some of a text that is not
\* ASCII (U+FFFD)
Infos ==
    { [has_info |-> FALSE, session_info |-> <<>>],
      [has_info |-> TRUE, session_info |-> <<>>],
      [has_info |-> TRUE, session_info |-> <<97, 58, 32, 49>>],
      [has_info |-> TRUE, session_info |-> <<239, 191, 189>>] }

\* iracing snapshots whose number of var headers is header.num_vars
IRacingSnapshots ==
    { [header |-> Header(LiveFields(n)),
       var_headers |-> [k \in 1..n |-> VarHeader(k)],
       has_info |-> info.has_info,
       session_info |-> info.session_info,
       raw_data |-> raw] :
        n \in 0..2, info \in Infos, raw \in {<<>>, LE32(7)} }

\* the pages of Assetto Corsa snapshots: all zero, or with bytes in the
\* fields and in the last byte of the padded content
GraphicsPages ==
    { Zeros(GRAPHICS_PADDED_SIZE),
      LE32(7) \o LE32(2) \o <<1>> \o Zeros(GRAPHICS_PADDED_SIZE - 10) \o <<255>> }
PhysicsPages ==
    { Zeros(PHYSICS_PADDED_SIZE),
      <<3>> \o Zeros(PHYSICS_PADDED_SIZE - 2) \o <<254>> }
StaticPages ==
    { Zeros(STATIC_PADDED_SIZE),
      <<49, 0, 46, 0>> \o Zeros(STATIC_PADDED_SIZE - 5) \o <<253>> }

AssettoCorsaSnapshots ==
    { [graphics |-> g, physics |-> p, statics |-> s] :
        g \in GraphicsPages, p \in PhysicsPages, s \in StaticPages }

\* byte strings given to the Assetto Corsa deserialize: a frame, a frame with
\* a byte after it, and frames cut inside or at the end of a page
AssettoCorsaInputs ==
    LET frame == AssettoCorsaSerialize(
                    [graphics |-> LE32(7) \o LE32(2) \o Zeros(GRAPHICS_PADDED_SIZE - 8),
                     physics |-> <<3>> \o Zeros(PHYSICS_PADDED_SIZE - 1),
                     statics |-> <<49>> \o Zeros(STATIC_PADDED_SIZE - 1)])
    IN  {frame, frame \o <<9>>}
          \cup {SubSeq(frame, 1, n) :
                  n \in {0, 1, GRAPHICS_PADDED_SIZE,
                         GRAPHICS_PADDED_SIZE + PHYSICS_PADDED_SIZE, FRAME_SIZE - 1}}

\* iracing byte strings whose length fields ask for more than any input
\* holds: num_vars = -1; a session info length of 2^63; one of 2^32
NegativeVars == Header([LiveFields(0) EXCEPT !.num_vars = -1])
HugeInfo == Header(LiveFields(0)) \o <<0, 0, 0, 0, 0, 0, 0, 128>>
LargeInfo == Header(LiveFields(0)) \o <<0, 0, 0, 0, 1, 0, 0, 0>>

\* a live frame with one variable, its session info and its raw data
LiveFrame ==
    IRacingSerialize([header |-> Header(LiveFields(1)),
                      var_headers |-> <<VarHeader(1)>>,
                      session_info |-> <<97, 58, 32, 49>>,
                      raw_data |-> LE32(7)])

\* byte strings given to the iracing deserialize: the live frame, everything
\* it starts with, and the three above
IRacingInputs ==
    {SubSeq(LiveFrame, 1, n) : n \in 0..Len(LiveFrame)}
      \cup {NegativeVars, HugeInfo, LargeInfo}

\* headers given to latest_buf_index: 1 to IRSDK_MAX_BUFS buffers in use,
\* every tick count from -1 to MaxTick
BufHeaders ==
    { Header([LiveFields(0) EXCEPT
                 !.num_buf = n,
                 !.bufs = [i \in 1..IRSDK_MAX_BUFS |-> <<t[i], 16 * i>>]]) :
        n \in 1..IRSDK_MAX_BUFS, t \in [1..IRSDK_MAX_BUFS -> -1..MaxTick] }

\* headers with any num_buf: negative, 0, in 1..IRSDK_MAX_BUFS and above
AnyBufHeaders ==
    { Header([LiveFields(0) EXCEPT
                 !.num_buf = n,
                 !.bufs = [i \in 1..IRSDK_MAX_BUFS |-> <<t[i], 16 * i>>]]) :
        n \in {-1, 0, 2, IRSDK_MAX_BUFS, IRSDK_MAX_BUFS + 1},
        t \in {<<0, 0, 0, 0>>, <<1, 2, 3, 4>>, <<4, 3, 2, 1>>} }

\* a frame whose latest buffer lies where the region of the player ends
OutsideFrame ==
    IRacingSerialize([header |-> Header([LiveFields(1) EXCEPT
                                           !.bufs[2] = <<2, DEFAULT_SHM_SIZE>>]),
                      var_headers |-> <<VarHeader(1)>>,
                      session_info |-> <<97, 58, 32, 49>>,
                      raw_data |-> LE32(7)])

\* a later frame of the live session whose session info is shorter than the
\* one before: the text "b", the header as before but for the update counter
BriefFrame ==
    IRacingSerialize([header |-> Header([LiveFields(1) EXCEPT
                                           !.session_info_update = 2]),
                      var_headers |-> <<VarHeader(1)>>,
                      session_info |-> <<98>>,
                      raw_data |-> LE32(8)])

\* regions of a running Assetto Corsa (the bytes up to the last one that is
\* not 0): a live session with few bytes set, one with the last byte of every
\* page set, and one whose status is AC_OFF
AssettoCorsaSources ==
    { [graphics |-> LE32(9) \o LE32(2) \o <<5>>,
       physics |-> <<1, 2, 3>>,
       statics |-> <<7>>],
      [graphics |-> LE32(1) \o LE32(1) \o Zeros(GRAPHICS_PADDED_SIZE - 9) \o <<255>>,
       physics |-> Zeros(PHYSICS_PADDED_SIZE - 1) \o <<254>>,
       statics |-> Zeros(STATIC_PADDED_SIZE - 1) \o <<253>>],
      [graphics |-> LE32(4) \o LE32(AC_OFF) \o <<6>>,
       physics |-> <<1>>,
       statics |-> <<2>>] }

\* what a capture of these regions records: the regions that gave a frame,
\* each with the frame update() returned
Captures ==
    {[src |-> src, data |-> AssettoCorsaConnectorUpdate(TRUE, src).data] :
        src \in {x \in AssettoCorsaSources :
                    AssettoCorsaConnectorUpdate(TRUE, x).some}}
CapturedFrames == {c.data : c \in Captures}

----------------------------------------------------------------------------
(* Part 4: the playback session of src/src/commands/play.rs, reading the    *)
(* file in sink through the Loader and driving the player.                  *)

\* the i-th good frame of a recording: what the connector's serialize wrote
\* at tick i of a live session
IRacingHeader(i) ==
    LE32(2) \o LE32(Connected) \o LE32(60)
      \o LE32(i) \o LE32(4) \o LE32(HEADER_SIZE + VAR_HEADER_SIZE)
      \o LE32(1) \o LE32(HEADER_SIZE)
      \o LE32(2) \o LE32(4) \o LE32(0) \o LE32(0)
      \o LE32(1) \o LE32(272) \o LE32(0) \o LE32(0)
      \o LE32(i + 1) \o LE32(280) \o LE32(0) \o LE32(0)
      \o Zeros(32)
IRacingFrame(i) ==
    IRacingSerialize([header |-> IRacingHeader(i),
                      var_headers |-> << LE32(2) \o LE32(0) \o LE32(1)
                                          \o Zeros(4) \o <<71, 101, 97, 114>>
                                          \o Zeros(VAR_HEADER_SIZE - 20) >>,
                      session_info |-> <<97, 58, 32, 48 + i>>,
                      raw_data |-> LE32(i)])
AssettoCorsaFrame(i) ==
    LE32(i) \o LE32(2) \o Zeros(GRAPHICS_PADDED_SIZE - 8)
      \o <<i>> \o Zeros(PHYSICS_PADDED_SIZE - 1)
      \o <<49>> \o Zeros(STATIC_PADDED_SIZE - 1)
GoodFrame(sid, i) == IF sid = Irac THEN IRacingFrame(i) ELSE AssettoCorsaFrame(i)

\* a payload too short to be a frame of either simulator
ShortFrame == <<1, 2>>

\* an id no player exists for
Test == <<116, 101, 115, 116>>

\* the records of a recording: position i holds the good frame i or the short
\* one
RECURSIVE Records(_, _, _)
Records(sid, shape, i) ==
    IF i > Len(shape) THEN <<>>
    ELSE SaverRecord(IF shape[i] THEN GoodFrame(sid, i) ELSE ShortFrame)
           \o Records(sid, shape, i + 1)

Shapes == UNION {[1..n -> BOOLEAN] : n \in 0..MaxFrames}

\* the files play::run is given: recordings of both simulators, whole or with
\* the last record cut, a recording with an id no player exists for, a file
\* that is no recording, and recordings whose header says 0 and -1 fps
PlayFiles ==
    {SaverHeader(60, sid) \o Records(sid, shape, 1) :
        sid \in {Irac, Acsa}, shape \in Shapes}
    \cup {LET whole == SaverHeader(60, sid) \o Records(sid, <<TRUE>>, 1)
          IN  SubSeq(whole, 1, Len(whole) - 3) : sid \in {Irac, Acsa}}
    \cup {SaverHeader(60, Test) \o Records(Test, <<FALSE>>, 1)}
    \cup {SaverHeader(f, Acsa) \o Records(Acsa, <<TRUE>>, 1) : f \in {0, -1}}
    \cup {ForeignHeader(BadMagic, 1, 60, Irac, 72)}

\* mutant: an id without a player of its own is played as Assetto Corsa
PlayerFor_Fallback(sid) == IF sid = Irac THEN "irac" ELSE "acsa"

\* run: the match on the id of the recording
PlayerFor(sid) ==
    IF sid = Irac THEN "irac" ELSE IF sid = Acsa THEN "acsa" ELSE "unknown"

\* mutant: the result starts as EndOfFile
InitialResult_EndOfFile == "EndOfFile"

\* run: let mut result = PlayResult::QuitRequested
InitialResult == "QuitRequested"

\* the objects whose creation fails in an initialize() call
CreateFailures(kind) ==
    {{}} \cup {{PlayerObjects(kind)[i]} : i \in 1..Len(PlayerObjects(kind))}

\* run: File::open and Loader::new, the reader at the start of the file
PlayOpen ==
    /\ ppc = "open"
    /\ UNCHANGED pmade
    /\ \/ /\ presult' = "Err(FailedToOpenFile)"
          /\ ppc' = "done"
          /\ UNCHANGED loaderVars
       \/ LET r == LoaderNew(sink) IN
             /\ newResult' = r.res
             /\ loader' = IF r.res.kind = "Ok" THEN "open" ELSE "failed"
             /\ version' = r.version
             /\ fps' = r.fps
             /\ id' = r.id
             /\ rpos' = r.pos
             /\ rdata' = sink
             /\ UNCHANGED <<foreign, flushedAt, loadStart, loads>>
             /\ IF r.res.kind = "Ok"
                THEN ppc' = "select" /\ UNCHANGED presult
                ELSE ppc' = "done" /\ presult' = "Err(FailedToReadHeader)"
    /\ UNCHANGED <<player, pmem, loopResult, pcalls, pwrites, pdata, wlog>>
    /\ UNCHANGED <<saver, saverArgs, pending, sink, saved, origin>>
    /\ UNCHANGED capVars
    /\ UNCHANGED layVars
    /\ UNCHANGED nap

\* run: the match on loader.id()
PlaySelect ==
    /\ ppc = "select"
    /\ UNCHANGED pmade
    /\ IF PlayerFor(id) = "unknown"
       THEN /\ presult' = "Err(UnknownSimError)"
            /\ ppc' = "done"
            /\ UNCHANGED player
       ELSE /\ player' = NewPlayer(PlayerFor(id))
            /\ ppc' = "init"
            /\ UNCHANGED presult
    /\ UNCHANGED <<pmem, loopResult, pcalls, pwrites, pdata, wlog>>
    /\ UNCHANGED ioVars
    /\ UNCHANGED capVars
    /\ UNCHANGED layVars
    /\ UNCHANGED nap

\* run: player.initialize(); then result = QuitRequested
PlayInitialize ==
    /\ ppc = "init"
    /\ pcalls' = Append(pcalls, "initialize")
    /\ \E fails \in CreateFailures(player.kind) :
          LET r == PlayerInitialize(player, pmem, fails)
          IN  /\ pmem' = r.mem
              /\ pmade' = [made |-> r.made, open |-> r.open]
              /\ IF r.ok
                 THEN /\ player' = r.player
                      /\ loopResult' = InitialResult
                      /\ ppc' = "tick"
                      /\ UNCHANGED presult
                 ELSE /\ player' = PlayerDrop(r.player)
                      /\ presult' = "Err(FailedToInitializePlayer)"
                      /\ ppc' = "done"
                      /\ UNCHANGED loopResult
    /\ UNCHANGED <<pwrites, pdata, wlog>>
    /\ UNCHANGED ioVars
    /\ UNCHANGED capVars
    /\ UNCHANGED layVars
    /\ UNCHANGED nap

\* run: the test of the while loop
PlayTick ==
    /\ ppc = "tick"
    /\ UNCHANGED pmade
    /\ ppc' = IF SeesQuit(quit_flag) THEN "stop" ELSE "load"
    /\ UNCHANGED <<player, pmem, presult, loopResult, pcalls, pwrites, pdata, wlog>>
    /\ UNCHANGED ioVars
    /\ UNCHANGED capVars
    /\ UNCHANGED layVars
    /\ UNCHANGED nap

\* run: loader.load()
PlayLoad ==
    /\ ppc = "load"
    /\ UNCHANGED pmade
    /\ \E o \in Load(rdata, rpos, version) :
          /\ loads' = Append(loads, o.res)
          /\ rpos' = o.pos
          /\ IF o.res.kind = "Some"
             THEN /\ ppc' = "update"
                  /\ UNCHANGED <<player, presult, loopResult>>
             ELSE IF o.res.kind = "None"
             THEN /\ loopResult' = "EndOfFile"
                  /\ ppc' = "stop"
                  /\ UNCHANGED <<player, presult>>
             ELSE /\ presult' = "Err(FailedToLoadFrame)"
                  /\ player' = PlayerDrop(player)
                  /\ ppc' = "done"
                  /\ UNCHANGED loopResult
    /\ loadStart' = rpos
    /\ UNCHANGED <<pmem, pcalls, pwrites, pdata, wlog>>
    /\ UNCHANGED <<saver, saverArgs, pending, sink, saved, origin, foreign,
                   loader, newResult, rdata, version, fps, id, flushedAt>>
    /\ UNCHANGED capVars
    /\ UNCHANGED layVars
    /\ UNCHANGED nap

\* run: player.update(&frame).  A call that does not return ends the
\* process (or leaves it undefined): the model follows it no further, and the
\* handles of the player are closed with it.
PlayUpdate ==
    /\ ppc = "update"
    /\ UNCHANGED pmade
    /\ pcalls' = Append(pcalls, "update")
    /\ pdata' = loads[Len(loads)].payload
    /\ LET r == PlayerUpdate(player, pmem, loads[Len(loads)].payload)
       IN  /\ pmem' = r.mem
           /\ pwrites' = pwrites + Len(r.log)
           /\ wlog' = r.log
           /\ \E fate \in r.fates :
                 IF fate # "return"
                 THEN /\ presult' = fate
                      /\ player' = PlayerDrop(player)
                      /\ ppc' = "dead"
                 ELSE IF r.ok
                 THEN /\ ppc' = "sleep"
                      /\ UNCHANGED <<player, presult>>
                 ELSE /\ presult' = "Err(FailedToUpdatePlayer)"
                      /\ player' = PlayerDrop(player)
                      /\ ppc' = "done"
    /\ UNCHANGED loopResult
    /\ UNCHANGED ioVars
    /\ UNCHANGED capVars
    /\ UNCHANGED layVars
    /\ UNCHANGED nap

\* run: elapsed_ms < tick_ms and the call of sleep_ms for the rest of the
\* tick, with the fps of the recording
PlaySleep ==
    /\ ppc = "sleep"
    /\ \E elapsed_us \in Elapsed :
          LET s == TickSleep(fps, elapsed_us)
          IN  IF s.call
              THEN ppc' = "sleep_ms" /\ nap' = [on |-> TRUE, ms |-> s.ms]
              ELSE ppc' = "tick" /\ nap' = NoNap
    /\ UNCHANGED <<player, pmem, presult, loopResult, pcalls, pwrites, pdata, wlog,
                   pmade>>
    /\ UNCHANGED ioVars
    /\ UNCHANGED capVars
    /\ UNCHANGED layVars

\* run: AdaptiveSleeper::sleep_ms returns, sleeps for ever, or panics; the
\* panic unwinds run, which drops the player
PlaySleepMs ==
    /\ ppc = "sleep_ms"
    /\ nap' = NoNap
    /\ \E fate \in SleepFates(nap.ms) :
          IF fate = "return"
          THEN /\ ppc' = "tick"
               /\ UNCHANGED <<player, presult>>
          ELSE IF fate = "forever"
          THEN /\ ppc' = "asleep"
               /\ UNCHANGED <<player, presult>>
          ELSE /\ ppc' = "dead"
               /\ presult' = "panic"
               /\ player' = PlayerDrop(player)
    /\ UNCHANGED <<pmem, loopResult, pcalls, pwrites, pdata, wlog, pmade>>
    /\ UNCHANGED ioVars
    /\ UNCHANGED capVars
    /\ UNCHANGED layVars

\* run: player.stop() after the loop and Ok(result)
PlayStop ==
    /\ ppc = "stop"
    /\ UNCHANGED pmade
    /\ pcalls' = Append(pcalls, "stop")
    /\ LET r == PlayerStop(player, pmem)
       IN  /\ player' = r.player
           /\ pmem' = r.mem
           /\ pwrites' = pwrites + Len(r.log)
           /\ wlog' = r.log
    /\ presult' = IF loopResult = "EndOfFile" THEN "Ok(EndOfFile)"
                  ELSE "Ok(QuitRequested)"
    /\ ppc' = "done"
    /\ UNCHANGED <<loopResult, pdata>>
    /\ UNCHANGED ioVars
    /\ UNCHANGED capVars
    /\ UNCHANGED layVars
    /\ UNCHANGED nap

\* no play::run and no player
PlayRest ==
    /\ player = NewPlayer("none")
    /\ pmem = [n \in {IRSDK_MEMMAPFILENAME, AC_GRAPHICS_SHM, AC_PHYSICS_SHM,
                      AC_STATIC_SHM} |-> <<>>]
    /\ presult = "none"
    /\ loopResult = "none"
    /\ pcalls = <<>>
    /\ pwrites = 0
    /\ pdata = <<>>
    /\ wlog = <<>>
    /\ pmade = [made |-> {}, open |-> {}]

PlayIdle == ppc = "off" /\ PlayRest

----------------------------------------------------------------------------
(* Part 5: a player under any sequence of calls of the Player trait         *)

MaxCalls == 4

\* the frames handed to update(): frames of a live session, a payload that
\* is no frame; for iracing a frame with a buffer outside the region, one
\* with a short session info and a header with a negative num_vars; for
\* Assetto Corsa what a capture of the source regions recorded
CallFrames(kind) ==
    LET sid == IF kind = "irac" THEN Irac ELSE Acsa
    IN  {GoodFrame(sid, 1), GoodFrame(sid, 2), ShortFrame}
          \cup (IF kind = "irac" THEN {OutsideFrame, BriefFrame, NegativeVars}
                ELSE CapturedFrames)

\* player.initialize()
CallInitialize ==
    /\ ppc = "calls"
    /\ Len(pcalls) < MaxCalls
    /\ pcalls' = Append(pcalls, "initialize")
    /\ \E fails \in CreateFailures(player.kind) :
          LET r == PlayerInitialize(player, pmem, fails)
          IN  /\ pmem' = r.mem
              /\ pmade' = [made |-> r.made, open |-> r.open]
              /\ player' = r.player
              /\ presult' = IF r.ok THEN "Ok" ELSE "Err"
    /\ UNCHANGED <<ppc, loopResult, pwrites, pdata, wlog>>
    /\ UNCHANGED ioVars
    /\ UNCHANGED capVars
    /\ UNCHANGED layVars
    /\ UNCHANGED nap

\* player.update(data)
CallUpdate ==
    /\ ppc = "calls"
    /\ UNCHANGED pmade
    /\ Len(pcalls) < MaxCalls
    /\ pcalls' = Append(pcalls, "update")
    /\ \E data \in CallFrames(player.kind) :
          LET r == PlayerUpdate(player, pmem, data)
          IN  /\ pdata' = data
              /\ pmem' = r.mem
              /\ pwrites' = pwrites + Len(r.log)
              /\ wlog' = r.log
              /\ \E fate \in r.fates :
                    IF fate # "return"
                    THEN /\ presult' = fate
                         /\ player' = PlayerDrop(player)
                         /\ ppc' = "dead"
                    ELSE /\ presult' = IF r.ok THEN "Ok" ELSE "Err"
                         /\ UNCHANGED <<ppc, player>>
    /\ UNCHANGED loopResult
    /\ UNCHANGED ioVars
    /\ UNCHANGED capVars
    /\ UNCHANGED layVars
    /\ UNCHANGED nap

\* player.stop()
CallStop ==
    /\ ppc = "calls"
    /\ UNCHANGED pmade
    /\ Len(pcalls) < MaxCalls
    /\ pcalls' = Append(pcalls, "stop")
    /\ LET r == PlayerStop(player, pmem)
       IN  /\ player' = r.player
           /\ pmem' = r.mem
           /\ pwrites' = pwrites + Len(r.log)
           /\ wlog' = r.log
    /\ presult' = "Ok"
    /\ UNCHANGED <<ppc, loopResult, pdata>>
    /\ UNCHANGED ioVars
    /\ UNCHANGED capVars
    /\ UNCHANGED layVars
    /\ UNCHANGED nap

----------------------------------------------------------------------------
(* Part 6: the frame layouts of src/src/sims/*/data.rs as functions, each    *)
(* applied once to a snapshot or to a byte string.                           *)

\* deserialize(serialize(s)) of an Assetto Corsa snapshot
AssettoCorsaRoundTrip ==
    /\ lop = "none"
    /\ \E s \in AssettoCorsaSnapshots :
          /\ lop' = "assettocorsa round trip"
          /\ lin' = s
          /\ lout' = [bytes |-> AssettoCorsaSerialize(s),
                      back |-> AssettoCorsaDeserialize(AssettoCorsaSerialize(s))]
    /\ UNCHANGED <<shm, connVars>>
    /\ UNCHANGED <<ioVars, capVars, playVars>>
    /\ UNCHANGED nap

\* deserialize(serialize(s)) of an iracing snapshot
IRacingRoundTrip ==
    /\ lop = "none"
    /\ \E s \in IRacingSnapshots :
       \E fate \in IRacingDeserializeFates(IRacingSerialize(s)) :
          /\ lop' = "iracing round trip"
          /\ lin' = s
          /\ lout' = [bytes |-> IRacingSerialize(s),
                      fate |-> fate,
                      back |-> IF fate = "return"
                               THEN IRacingDeserialize(IRacingSerialize(s))
                               ELSE IRacingDeserialize(<<>>)]
    /\ UNCHANGED <<shm, connVars>>
    /\ UNCHANGED <<ioVars, capVars, playVars>>
    /\ UNCHANGED nap

\* assettocorsa FrameData::deserialize(bytes)
AssettoCorsaDeserializeBytes ==
    /\ lop = "none"
    /\ \E bytes \in AssettoCorsaInputs :
          /\ lop' = "assettocorsa deserialize"
          /\ lin' = bytes
          /\ lout' = [fate |-> "return", back |-> AssettoCorsaDeserialize(bytes)]
    /\ UNCHANGED <<shm, connVars>>
    /\ UNCHANGED <<ioVars, capVars, playVars>>
    /\ UNCHANGED nap

\* iracing FrameData::deserialize(bytes)
IRacingDeserializeBytes ==
    /\ lop = "none"
    /\ \E bytes \in IRacingInputs :
       \E fate \in IRacingDeserializeFates(bytes) :
          /\ lop' = "iracing deserialize"
          /\ lin' = bytes
          /\ lout' = [fate |-> fate,
                      back |-> IF fate = "return" THEN IRacingDeserialize(bytes)
                               ELSE IRacingDeserialize(<<>>)]
    /\ UNCHANGED <<shm, connVars>>
    /\ UNCHANGED <<ioVars, capVars, playVars>>
    /\ UNCHANGED nap

\* header.latest_buf_index()
LatestBufIndex ==
    /\ lop = "none"
    /\ \E h \in BufHeaders :
          /\ lop' = "latest_buf_index"
          /\ lin' = h
          /\ lout' = latest_buf_index(h)
    /\ UNCHANGED <<shm, connVars>>
    /\ UNCHANGED <<ioVars, capVars, playVars>>
    /\ UNCHANGED nap

\* header.latest_buf_index() on a header with any num_buf: how the call ends
\* and, when it returns, the index
LatestBufIndexAnyHeader ==
    /\ lop = "none"
    /\ \E h \in AnyBufHeaders :
          /\ lop' = "latest_buf_index, any num_buf"
          /\ lin' = h
          /\ lout' = IF LatestPanics(h) THEN [fate |-> "panic", index |-> 0]
                     ELSE [fate |-> "return", index |-> latest_buf_index(h)]
    /\ UNCHANGED <<shm, connVars>>
    /\ UNCHANGED <<ioVars, capVars, playVars>>
    /\ UNCHANGED nap

----------------------------------------------------------------------------
(* Part 7: the named mappings of src/src/shm.rs.  A mapping is an object of *)
(* the system that lives while a handle to it is open, in this process or   *)
(* in another (the simulator); CreateFileMappingA makes it or opens the one *)
(* there is, OpenFileMappingA opens the one there is.                       *)

\* the largest number of writers, of readers and of handles of other
\* processes on one name
MaxHandles == 2

\* shm.rs tests: the names
ShmNames == {"Local\\KsanaTestShm", "Local\\NonexistentShm12345"}

\* a mapping exists: a handle to it is open somewhere
Exists(m) == m.handles + m.others > 0

\* mutant: drop forgets the handle
CloseHandle_Leak(n) == n

\* CloseHandle(self.handle) in the Drop of a reader or writer
CloseHandle(n) == n - 1

\* what SharedMemoryReader::open can return: OpenFileMappingA fails for a
\* name without a mapping (and may fail for one that cannot be accessed);
\* MapViewOfFile may fail, and then the handle is closed again
OpenOutcomes(m) ==
    IF Exists(m) THEN {"Ok", "Err(OpenFailed)", "Err(MapFailed)"}
    ELSE {"Err(OpenFailed)"}

\* what SharedMemoryWriter::create can return
CreateOutcomes == {"Ok", "Err(CreateFailed)", "Err(MapFailed)"}

\* SharedMemoryWriter::create(name, size)
WriterCreate ==
    /\ \E n \in ShmNames, r \in CreateOutcomes :
          /\ shm[n].writers < MaxHandles
          /\ lop' = "create"
          /\ lin' = n
          /\ lout' = r
          /\ shm' = IF r = "Ok"
                    THEN [shm EXCEPT ![n].writers = @ + 1, ![n].handles = @ + 1]
                    ELSE shm
    /\ UNCHANGED connVars
    /\ UNCHANGED <<ioVars, capVars, playVars>>
    /\ UNCHANGED nap

\* SharedMemoryReader::open(name, size)
ReaderOpen ==
    /\ \E n \in ShmNames :
       \E r \in OpenOutcomes(shm[n]) :
          /\ shm[n].readers < MaxHandles
          /\ lop' = "open"
          /\ lin' = n
          /\ lout' = r
          /\ shm' = IF r = "Ok"
                    THEN [shm EXCEPT ![n].readers = @ + 1, ![n].handles = @ + 1]
                    ELSE shm
    /\ UNCHANGED connVars
    /\ UNCHANGED <<ioVars, capVars, playVars>>
    /\ UNCHANGED nap

\* a SharedMemoryWriter is dropped
WriterDrop ==
    /\ \E n \in ShmNames :
          /\ shm[n].writers > 0
          /\ lop' = "drop writer"
          /\ lin' = n
          /\ lout' = "dropped"
          /\ shm' = [shm EXCEPT ![n].writers = @ - 1,
                                ![n].handles = CloseHandle(@)]
    /\ UNCHANGED connVars
    /\ UNCHANGED <<ioVars, capVars, playVars>>
    /\ UNCHANGED nap

\* a SharedMemoryReader is dropped
ReaderDrop ==
    /\ \E n \in ShmNames :
          /\ shm[n].readers > 0
          /\ lop' = "drop reader"
          /\ lin' = n
          /\ lout' = "dropped"
          /\ shm' = [shm EXCEPT ![n].readers = @ - 1,
                                ![n].handles = CloseHandle(@)]
    /\ UNCHANGED connVars
    /\ UNCHANGED <<ioVars, capVars, playVars>>
    /\ UNCHANGED nap

\* another process (a simulator) creates or opens the mapping, or closes a
\* handle it has
OtherProcess ==
    /\ \E n \in ShmNames, d \in {-1, 1} :
          /\ shm[n].others + d \in 0..MaxHandles
          /\ lop' = "other process"
          /\ lin' = n
          /\ lout' = d
          /\ shm' = [shm EXCEPT ![n].others = @ + d]
    /\ UNCHANGED connVars
    /\ UNCHANGED <<ioVars, capVars, playVars>>
    /\ UNCHANGED nap

----------------------------------------------------------------------------
(* Part 8: the connector of src/src/sims/iracing/connector.rs over the      *)
(* region of a running simulator, its methods called in any order while the *)
(* simulator writes.                                                        *)

\* most update() calls made on one connector
MaxPolls == 2

\* Header.session_info_update and Header.buf_len
session_info_update_of(h) == HeaderField(h, 3)
buf_len(h) == HeaderField(h, 9)

\* the session info the simulator publishes with the update counter u: none
\* yet, "a: 1", then the shorter "b"
SessionText(u) ==
    IF u = 0 THEN <<>> ELSE IF u = 1 THEN <<97, 58, 32, 49>> ELSE <<98>>

\* the buffers in use and the tick counts the simulator writes
SimBufs == {2, IRSDK_MAX_BUFS + 1}
SimTicks(i) == IF i = 1 THEN 0..1 ELSE 0..2

\* the header fields a running simulator can show: connected or not, the
\* update counter, two or (a region that is not iRacing's) five buffers in
\* use, tick counts in the first two buffers
SimFields ==
    { [LiveFields(1) EXCEPT !.status = s, !.session_info_update = u,
                            !.num_buf = n,
                            !.bufs[1][1] = t1, !.bufs[2][1] = t2] :
        s \in {0, Connected}, u \in 0..2, n \in SimBufs,
        t1 \in SimTicks(1), t2 \in SimTicks(2) }

\* the bytes of the region with the header fields f: the header, one var
\* header, the session info at session_info_offset, the two buffers
IRacingRegion(f) ==
    LET info == SessionText(f.session_info_update)
    IN  Header(f) \o VarHeader(1) \o info \o Zeros(16 - Len(info))
          \o LE32(7) \o Zeros(4) \o LE32(8)

\* IRacingConnector::new
NewConnector ==
    [shm |-> FALSE, last_session_info_update |-> 0, last_tick_count |-> 0]

\* connect() on success: the reader, and both counters 0
Reconnected(c) ==
    [shm |-> TRUE, last_session_info_update |-> 0, last_tick_count |-> 0]

\* IRacingConnector::connect; exists: a mapping of the name exists, and mem
\* is what it holds
IRacingConnectorConnect(c, exists, mem) ==
    IF ~exists THEN [ret |-> FALSE, conn |-> c]
    ELSE IF IsConnected(status_of(ShmRead(mem, 0, HEADER_SIZE)))
    THEN [ret |-> TRUE, conn |-> Reconnected(c)]
    ELSE [ret |-> FALSE, conn |-> c]

\* IRacingConnector::disconnect
IRacingConnectorDisconnect(c) == NewConnector

\* mutant: only a larger tick count is new data
NoNewData_NotLarger(current_tick, last_tick_count) == current_tick <= last_tick_count

\* update: current_tick == self.last_tick_count
NoNewData(current_tick, last_tick_count) == current_tick = last_tick_count

\* mutant: only a larger update counter brings the session info
InfoChanged_Larger(update, last_update) == update > last_update

\* update: header.session_info_update != self.last_session_info_update
InfoChanged(update, last_update) == update # last_update

\* read_var_headers: num_vars records from var_header_offset
ReadVarHeaders(mem, h) ==
    [k \in 1..num_vars(h) |->
        ShmRead(mem, var_header_offset(h) + (k - 1) * VAR_HEADER_SIZE,
                VAR_HEADER_SIZE)]

\* read_raw_data: buf_len bytes at the offset of the latest buffer
ReadRawData(mem, h) == ShmRead(mem, buf_offset(h, latest_buf_index(h)), buf_len(h))

\* IRacingConnector::update over the region mem: the connector after the
\* call, Some(data) or None, whether the FrameData held Some session info,
\* and how the call ends ("panic": latest_buf_index past var_buf)
IRacingConnectorUpdate(c, mem) ==
    LET none == [conn |-> c, some |-> FALSE, has_info |-> FALSE, data |-> <<>>,
                 fate |-> "return"]
    IN  IF ~c.shm THEN none
        ELSE
        LET header == ShmRead(mem, 0, HEADER_SIZE)
        IN  IF ~IsConnected(status_of(header)) THEN none
            ELSE IF LatestPanics(header) THEN [none EXCEPT !.fate = "panic"]
            ELSE
            LET current_tick == tick_count(header, latest_buf_index(header))
            IN  IF NoNewData(current_tick, c.last_tick_count) THEN none
                ELSE
                LET fresh == InfoChanged(session_info_update_of(header),
                                         c.last_session_info_update)
                    frame == [header |-> header,
                              var_headers |-> ReadVarHeaders(mem, header),
                              session_info |-> IF fresh
                                               THEN ReadSessionInfo(mem, header)
                                               ELSE <<>>,
                              raw_data |-> ReadRawData(mem, header)]
                IN  [conn |-> [c EXCEPT
                                 !.last_tick_count = current_tick,
                                 !.last_session_info_update =
                                     IF fresh THEN session_info_update_of(header)
                                     ELSE @],
                     some |-> TRUE,
                     has_info |-> fresh,
                     data |-> IRacingSerialize(frame),
                     fate |-> "return"]

\* no update() call made yet
NotPolled ==
    [n |-> 0, some |-> FALSE, has_info |-> FALSE, data |-> <<>>, fate |-> "return",
     since |-> "new"]

\* the bytes of the region of the simulator
Mapped == IF irsdk.up THEN IRacingRegion(irsdk.f) ELSE <<>>

\* the header fields after the simulator wrote one field of f
SimWrites(f) ==
    ({[f EXCEPT !.status = s] : s \in {0, Connected}}
       \cup {[f EXCEPT !.session_info_update = u] : u \in 0..2}
       \cup {[f EXCEPT !.num_buf = n] : n \in SimBufs}
       \cup UNION {{[f EXCEPT !.bufs[i][1] = t] : t \in SimTicks(i)} : i \in 1..2})
      \ {f}

\* the simulator starts, or writes one field of its header
Simulator ==
    /\ \E f \in IF irsdk.up THEN SimWrites(irsdk.f) ELSE SimFields :
          irsdk' = [up |-> TRUE, f |-> f]
    /\ UNCHANGED <<conn, polled>>
    /\ UNCHANGED <<lop, lin, lout, shm>>
    /\ UNCHANGED <<ioVars, capVars, playVars>>
    /\ UNCHANGED nap

\* connector.connect()
ConnectorConnect ==
    /\ polled.fate = "return"
    /\ LET r == IRacingConnectorConnect(conn, irsdk.up, Mapped)
       IN  /\ conn' = r.conn
           /\ polled' = [polled EXCEPT !.since = IF r.ret THEN "connect" ELSE @]
    /\ UNCHANGED irsdk
    /\ UNCHANGED <<lop, lin, lout, shm>>
    /\ UNCHANGED <<ioVars, capVars, playVars>>
    /\ UNCHANGED nap

\* connector.disconnect()
ConnectorDisconnect ==
    /\ polled.fate = "return"
    /\ conn' = IRacingConnectorDisconnect(conn)
    /\ polled' = [polled EXCEPT !.since = "disconnect"]
    /\ UNCHANGED irsdk
    /\ UNCHANGED <<lop, lin, lout, shm>>
    /\ UNCHANGED <<ioVars, capVars, playVars>>
    /\ UNCHANGED nap

\* connector.update()
ConnectorUpdate ==
    /\ polled.fate = "return"
    /\ polled.n < MaxPolls
    /\ LET r == IRacingConnectorUpdate(conn, Mapped)
       IN  /\ conn' = r.conn
           /\ polled' = [n |-> polled.n + 1, some |-> r.some,
                         has_info |-> r.has_info, data |-> r.data,
                         fate |-> r.fate, since |-> "update"]
    /\ UNCHANGED irsdk
    /\ UNCHANGED <<lop, lin, lout, shm>>
    /\ UNCHANGED <<ioVars, capVars, playVars>>
    /\ UNCHANGED nap

\* no simulator, a connector as new() made it
ConnectorIdle ==
    /\ irsdk = [up |-> FALSE, f |-> LiveFields(1)]
    /\ conn = NewConnector
    /\ polled = NotPolled

\* nothing applied, no mapping
LayoutIdle ==
    /\ lop = "none"
    /\ lin = <<>>
    /\ lout = <<>>
    /\ shm = [n \in ShmNames |->
                [writers |-> 0, readers |-> 0, handles |-> 0, others |-> 0]]
    /\ ConnectorIdle
    /\ nap = NoNap

----------------------------------------------------------------------------
(* The specifications *)

\* the codec
Init ==
    /\ IoInit
    /\ CaptureIdle
    /\ dfps = 5
    /\ PlayIdle
    /\ LayoutIdle

Next ==
    \/ SaverNew
    \/ Save
    \/ Flush
    \/ WriteForeignHeader
    \/ WriteForeignRecord
    \/ OpenLoader
    \/ LoadFrame

Spec == Init /\ [][Next]_vars

\* dump::run
CaptureInit ==
    /\ IoInit
    /\ CaptureIdle
    /\ dfps \in CaptureFps
    /\ PlayIdle
    /\ LayoutIdle

CaptureNext ==
    \/ SignalQuit
    \/ WaitCheck
    \/ ConnectAttempt
    \/ WaitSleep
    \/ OpenOutput
    \/ RecordTick
    \/ PollData
    \/ PollEmpty
    \/ RecordSleep
    \/ RecordSleepMs
    \/ FlushOutput

CaptureSpec == CaptureInit /\ [][CaptureNext]_vars

\* play::run on one of the files
PlayInit ==
    /\ IoRest
    /\ sink \in PlayFiles
    /\ cpc = "off"
    /\ CaptureRest
    /\ dfps = 5
    /\ ppc = "open"
    /\ PlayRest
    /\ LayoutIdle

PlayNext ==
    \/ SignalQuit
    \/ PlayOpen
    \/ PlaySelect
    \/ PlayInitialize
    \/ PlayTick
    \/ PlayLoad
    \/ PlayUpdate
    \/ PlaySleep
    \/ PlaySleepMs
    \/ PlayStop

PlaySpec == PlayInit /\ [][PlayNext]_vars

\* a player as new() made it
PlayerInit ==
    /\ IoInit
    /\ cpc = "off"
    /\ CaptureRest
    /\ dfps = 5
    /\ ppc = "calls"
    /\ player \in {NewPlayer("irac"), NewPlayer("acsa")}
    /\ pmem = [n \in {IRSDK_MEMMAPFILENAME, AC_GRAPHICS_SHM, AC_PHYSICS_SHM,
                      AC_STATIC_SHM} |-> <<>>]
    /\ presult = "none"
    /\ loopResult = "none"
    /\ pcalls = <<>>
    /\ pwrites = 0
    /\ pdata = <<>>
    /\ wlog = <<>>
    /\ pmade = [made |-> {}, open |-> {}]
    /\ LayoutIdle

PlayerNext ==
    \/ CallInitialize
    \/ CallUpdate
    \/ CallStop

PlayerSpec == PlayerInit /\ [][PlayerNext]_vars

\* the layouts applied to snapshots and byte strings
LayoutNext ==
    \/ AssettoCorsaRoundTrip
    \/ IRacingRoundTrip
    \/ AssettoCorsaDeserializeBytes
    \/ IRacingDeserializeBytes
    \/ LatestBufIndex
    \/ LatestBufIndexAnyHeader

LayoutSpec == Init /\ [][LayoutNext]_vars

\* mappings made, opened and dropped in any order
ShmNext ==
    \/ WriterCreate
    \/ ReaderOpen
    \/ WriterDrop
    \/ ReaderDrop
    \/ OtherProcess

ShmSpec == Init /\ [][ShmNext]_vars

\* the connector called in any order over a simulator that writes
ConnectorNext ==
    \/ Simulator
    \/ ConnectorConnect
    \/ ConnectorDisconnect
    \/ ConnectorUpdate

ConnectorSpec == Init /\ [][ConnectorNext]_vars

----------------------------------------------------------------------------
(* The commands of main: dump or play *)

SessionInit == CaptureInit \/ PlayInit

SessionNext ==
    \/ SignalQuit
    \/ WaitCheck
    \/ ConnectAttempt
    \/ WaitSleep
    \/ OpenOutput
    \/ RecordTick
    \/ PollData
    \/ PollEmpty
    \/ RecordSleep
    \/ RecordSleepMs
    \/ FlushOutput
    \/ PlayOpen
    \/ PlaySelect
    \/ PlayInitialize
    \/ PlayTick
    \/ PlayLoad
    \/ PlayUpdate
    \/ PlaySleep
    \/ PlaySleepMs
    \/ PlayStop

SessionSpec == SessionInit /\ [][SessionNext]_vars

----------------------------------------------------------------------------
(* Properties of the codec *)

Last(q) == q[Len(q)]

\* the record a load() call found at position pos of data is whole and sound:
\* header length h >= 12, both length fields, h - 12 extra header bytes and a
\* payload that decompresses
RecordHeaderLen(data, pos) == I32(Bytes(data, pos, 4))
RecordCompressedLen(data, pos) == U32(Bytes(data, pos + 4, 4))
RecordRawLen(data, pos) == U32(Bytes(data, pos + 8, 4))
WholeRecordAt(data, pos) ==
    /\ CanRead(data, pos, 12)
    /\ RecordHeaderLen(data, pos) >= 12
    /\ CanRead(data, pos + 12, RecordHeaderLen(data, pos) - 12)
    /\ CanRead(data, pos + RecordHeaderLen(data, pos), RecordCompressedLen(data, pos))
    /\ Decompress(Bytes(data, pos + RecordHeaderLen(data, pos),
                        RecordCompressedLen(data, pos))).ok
RecordPayload(data, pos) ==
    Decompress(Bytes(data, pos + RecordHeaderLen(data, pos),
                     RecordCompressedLen(data, pos))).out

\* C1: payloads p1..pn saved in that order and then flushed are what a Loader
\* opened on the stream returns from its first n load() calls: Loader::new
\* succeeds and the k-th load() is Some(pk), byte for byte.
C1_SaveLoadRoundTrip ==
    flushedAt =>
        /\ loader = "open"
        /\ \A k \in 1..Len(loads) :
              k <= Len(saved) => loads[k] = SomeFrame(saved[k])

\* an empty and a compressible payload were saved, flushed and both loaded
C1_Witness ==
    /\ flushedAt
    /\ Len(saved) >= 2 /\ Len(loads) >= 2
    /\ saved[1] = <<>> /\ saved[2] = <<0, 0, 0, 0, 0, 0>>
    /\ loads[2].kind = "Some"

\* C2: once load() has returned None, every later load() on the same Loader
\* returns None.
C2_EofIsFinal ==
    \A i, j \in 1..Len(loads) :
        (i < j /\ loads[i] = None) => loads[j] = None

\* a frame was loaded, then None twice
C2_Witness ==
    /\ Len(loads) >= 3
    /\ loads[1].kind = "Some"
    /\ loads[2] = None /\ loads[3] = None

\* C3: on every stream Loader::new accepts, a whole record with header length
\* H >= 12 decodes as the same record with H = 12 does: load() skips the
\* H - 12 extra header bytes, returns the payload and leaves the reader after
\* the record.
C3_ExtraHeaderBytesSkipped ==
    (loader = "open" /\ loads # <<>> /\ WholeRecordAt(rdata, loadStart))
        => /\ Last(loads) = SomeFrame(RecordPayload(rdata, loadStart))
           /\ rpos = loadStart + RecordHeaderLen(rdata, loadStart)
                        + RecordCompressedLen(rdata, loadStart)

\* the streams of C3 on which the code does what C3 says: version = current
C3_SkippedAtCurrentVersion ==
    (loader = "open" /\ loads # <<>> /\ WholeRecordAt(rdata, loadStart)
        /\ version = CURRENT_VERSION)
        => /\ Last(loads) = SomeFrame(RecordPayload(rdata, loadStart))
           /\ rpos = loadStart + RecordHeaderLen(rdata, loadStart)
                        + RecordCompressedLen(rdata, loadStart)

HasMagic(data) == CanRead(data, 0, 8) /\ Bytes(data, 0, 8) = MAGIC
VersionField(data) == I32(Bytes(data, 8, 4))

\* C4 as stated: with a valid magic, a version above the current one is refused
\* with UnsupportedVersion(version) and every other stream is accepted.
C4_AcceptsEveryOldVersion ==
    (loader # "none" /\ HasMagic(rdata) /\ CanRead(rdata, 8, 4)) =>
        IF VersionField(rdata) > 1
        THEN loader = "failed"
             /\ newResult = Err("UnsupportedVersion", VersionField(rdata))
        ELSE loader = "open"

\* C4 amended: ... and every other stream whose 72-byte header is complete is
\* accepted; one that ends inside the header is refused with an I/O error.
C4_VersionCheck ==
    (loader # "none" /\ HasMagic(rdata) /\ CanRead(rdata, 8, 4)) =>
        IF VersionField(rdata) > 1
        THEN loader = "failed"
             /\ newResult = Err("UnsupportedVersion", VersionField(rdata))
        ELSE IF Len(rdata) >= 72
        THEN loader = "open" /\ newResult.kind = "Ok"
        ELSE loader = "failed" /\ newResult = Err("Io", 0)

\* a version below the current one was accepted
C4_Witness ==
    /\ loader = "open"
    /\ HasMagic(rdata)
    /\ VersionField(rdata) = -1

\* C5: a stream whose first 8 bytes are not the magic is refused with
\* InvalidMagic, whatever its version field holds, and no frame is read.
C5_InvalidMagic ==
    (loader # "none" /\ CanRead(rdata, 0, 8) /\ Bytes(rdata, 0, 8) # MAGIC) =>
        /\ loader = "failed"
        /\ newResult = Err("InvalidMagic", 0)
        /\ loads = <<>>

\* a complete header with a wrong magic and an unsupported version was refused
C5_Witness ==
    /\ loader = "failed"
    /\ Len(rdata) = 72
    /\ Bytes(rdata, 0, 8) = BadMagic
    /\ VersionField(rdata) = 2

\* C6: what Saver::new writes is 72 bytes: magic, version 1, fps, id, 52 zero
\* bytes; the record of the first save starts at byte offset 72.
C6_HeaderIs72Bytes ==
    saver = "open" =>
        LET s == sink \o pending IN
        /\ Len(s) >= 72
        /\ Bytes(s, 0, 8) = <<82, 69, 67, 82, 79, 67, 75, 83>>
        /\ Bytes(s, 8, 4) = <<1, 0, 0, 0>>
        /\ I32(Bytes(s, 12, 4)) = saverArgs[1]
        /\ Bytes(s, 16, 4) = saverArgs[2]
        /\ \A i \in 21..72 : s[i] = 0
        /\ saved = <<>> => Len(s) = 72
        /\ saved # <<>> =>
              /\ CanRead(s, 72, 12)
              /\ Bytes(s, 72, 4) = <<12, 0, 0, 0>>
              /\ RecordRawLen(s, 72) = Len(saved[1])
              /\ Bytes(s, 84, 2) = ZLIB_HEADER

\* a header with a negative fps, followed by a first record
C6_Witness ==
    /\ saver = "open"
    /\ saverArgs = <<-1, Irac>>
    /\ Len(saved) = 1
    /\ Len(sink \o pending) > 72

\* C7: a Loader reports the fps, id and version of its stream's header: those
\* Saver::new was given, with the current version.  This holds after any
\* number of load() calls.
C7_HeaderFieldsStable ==
    loader = "open" =>
        /\ version = VersionField(rdata)
        /\ fps = I32(Bytes(rdata, 12, 4))
        /\ id = Bytes(rdata, 16, 4)
        /\ origin = "saver" =>
              /\ fps = saverArgs[1]
              /\ id = saverArgs[2]
              /\ version = CURRENT_VERSION

\* fps 60, id "acsa" after a load that returned a frame and one that returned None
C7_Witness ==
    /\ loader = "open" /\ origin = "saver"
    /\ fps = 60 /\ id = Acsa /\ version = 1
    /\ Len(loads) >= 2
    /\ loads[1].kind = "Some"
    /\ Last(loads) = None

\* C8: load() at a record whose header length is below 12 returns
\* InvalidHeaderSize with that value, and so no payload.
C8_InvalidHeaderSize ==
    (loader = "open" /\ loads # <<>> /\ CanRead(rdata, loadStart, 4)
        /\ RecordHeaderLen(rdata, loadStart) < 12)
        => Last(loads) = Err("InvalidHeaderSize", RecordHeaderLen(rdata, loadStart))

\* a negative header length was refused
C8_Witness ==
    /\ loads # <<>>
    /\ Last(loads) = Err("InvalidHeaderSize", -1)

\* C9 as stated: whenever load() returns Some(payload), the payload is as long
\* as the raw-length field of the record says.
C9_RawLenOfEveryFrame ==
    (loader = "open" /\ loads # <<>> /\ Last(loads).kind = "Some")
        => Len(Last(loads).payload) = RecordRawLen(rdata, loadStart)

\* C9 amended: every record Saver::save writes carries the length of its input
\* in the raw-length field, so on a stream a Saver wrote a payload load()
\* returns is as long as the field says.
C9_RawLenOfSavedFrame ==
    (loader = "open" /\ origin = "saver" /\ loads # <<>> /\ Last(loads).kind = "Some")
        => /\ Len(Last(loads).payload) = RecordRawLen(rdata, loadStart)
           /\ Len(loads) <= Len(saved)
           /\ RecordRawLen(rdata, loadStart) = Len(saved[Len(loads)])

\* the compressible payload, 6 bytes raw, was loaded from a Saver's stream
C9_Witness ==
    /\ loader = "open" /\ origin = "saver"
    /\ loads # <<>>
    /\ Last(loads) = SomeFrame(<<0, 0, 0, 0, 0, 0>>)
    /\ RecordRawLen(rdata, loadStart) = 6
    /\ RecordCompressedLen(rdata, loadStart) # 6

----------------------------------------------------------------------------
(* Properties of the capture session *)

\* C10: record() returns SimDisconnected, an Ok result, exactly at the poll
\* that makes 21 consecutive empty polls since its start or since the last poll
\* with data; a poll with data puts the count back to 0, and with 20 or fewer
\* consecutive empty polls record() has not returned SimDisconnected.
C10_DisconnectAt21EmptyPolls ==
    /\ emptyRun <= 21
    /\ no_data_count = emptyRun
    /\ (recResult = "SimDisconnected") <=> (emptyRun = 21)
    /\ recResult = "SimDisconnected" =>
          /\ cpc \in {"flush", "done"}
          /\ result \in {"none", "Ok(SimDisconnected)", "Err(FlushFailed)"}
    /\ (cpc \in {"tick", "poll", "sleep"}) => emptyRun <= 20

\* the source went silent for 21 polls after data had reset an earlier run of
\* empty polls
C10_Witness ==
    /\ recResult = "SimDisconnected"
    /\ result = "Ok(SimDisconnected)"
    /\ resetSeen
    /\ emptyRun = 21

\* the regions of the simulator with this id
AllRegions(sid) == {SourceRegions(sid)[i] : i \in 1..Len(SourceRegions(sid))}

\* a simulator is live: its regions exist and its liveness flag is not off
Live(sid, env) ==
    /\ AllRegions(sid) \subseteq env.present
    /\ IF sid = Irac THEN env.status % 2 = 1 ELSE env.status # 0

\* what the command returned, "none" while it runs
Outcome == IF ppc # "off" THEN presult ELSE result

\* the positions between the test of the loop and the next test
MidTick == {"poll", "sleep", "load", "update"}

\* C11, as the claim has it: when the flag is set while a tick of the capture
\* or the playback loop is in progress and the next test of the loop sees it,
\* the session ends with Ok(QuitRequested), not with an error.
C11_QuitMidTickEndsQuitRequested ==
    /\ (quitAt[2] \in MidTick /\ cpc = "done" /\ recResult = "QuitRequested")
          => result = "Ok(QuitRequested)"
    /\ (quitAt[2] \in MidTick /\ ppc = "done" /\ loopResult = "QuitRequested"
          /\ pcalls # <<>> /\ Last(pcalls) = "stop")
          => presult = "Ok(QuitRequested)"

\* C11, amended: the loops look at the flag only in their test.  A tick in
\* progress when the flag is set goes on as it would have (a poll with data is
\* saved, a loaded frame is written to the regions); the next test of the loop
\* starts no tick and ends the loop with QuitRequested, which play::run returns
\* as Ok(QuitRequested) after stop() and dump::run returns as Ok(QuitRequested)
\* unless the flush fails.  The tick in progress can itself end the session
\* otherwise (save error, 21st empty poll, end of file, load or update error).
C11_QuitSeenAtTopOfTick ==
    /\ [](/\ recResult = "QuitRequested" =>
                /\ quit_flag
                /\ result \in {"none", "Ok(QuitRequested)", "Err(FlushFailed)"}
          /\ Outcome = "Ok(QuitRequested)" => quit_flag
          /\ (ppc = "done" /\ loopResult = "QuitRequested"
                /\ pcalls # <<>> /\ Last(pcalls) = "stop")
                => presult = "Ok(QuitRequested)")
    /\ [][/\ (recResult' = "QuitRequested" /\ recResult # "QuitRequested")
                => (cpc = "tick" /\ quit_flag)
          /\ (quit_flag /\ cpc = "tick" /\ cpc' # cpc)
                => (cpc' = "flush" /\ recResult' = "QuitRequested")
          /\ (quit_flag /\ ppc = "tick" /\ ppc' # ppc)
                => (ppc' = "stop" /\ loopResult' = "QuitRequested")
          /\ (ppc' = "stop" /\ ppc # "stop" /\ loopResult' = "QuitRequested")
                => (ppc = "tick" /\ quit_flag)
          /\ (cpc = "poll" /\ cpc' = "sleep" /\ no_data_count' = 0)
                => Len(saved') = Len(saved) + 1
          /\ (ppc = "update" /\ ppc' = "sleep")
                => (pwrites' > pwrites /\ pcalls' = Append(pcalls, "update"))
         ]_vars

\* the flag was set during the poll of the second tick; that tick's frame was
\* saved and the session ended with Ok(QuitRequested)
C11_Witness ==
    /\ quitAt = <<"dump", "poll">>
    /\ Len(saved) = 2
    /\ recResult = "QuitRequested"
    /\ result = "Ok(QuitRequested)"

\* C12: when dump::run has returned, whatever the path, no ConnectorGuard is
\* left and no connector holds a region: the connector connect() succeeded on
\* has been disconnected.  While the guard lives its connector holds all its
\* regions and no other connector holds any.
C12_DisconnectedOnEveryExit ==
    /\ cpc = "done" =>
          /\ guard = 0
          /\ held = {}
          /\ \A i \in 1..NumConnectors : regions[i] = {}
    /\ \A i \in 1..NumConnectors :
          regions[i] = IF i = guard THEN AllRegions(Connectors[i]) ELSE {}

\* run returned an error after a connect() had succeeded: the output file
\* could not be created
C12_Witness ==
    /\ cpc = "done"
    /\ result = "Err(CreateFileError)"
    /\ attempts # <<>> /\ Last(attempts).ret
    /\ regions = [i \in 1..NumConnectors |-> {}]

C14_SaveErrorEndsSession ==
    /\ [](recResult = "SavingFrameFailed" =>
             /\ cpc = "done"
             /\ result = "Err(SavingFrameFailed)"
             /\ guard = 0)
    /\ [][recResult = "SavingFrameFailed" =>
             UNCHANGED <<saved, pending, sink, no_data_count, emptyRun, cpc, result>>
         ]_vars
    /\ [][(recResult' = "SavingFrameFailed" /\ recResult # "SavingFrameFailed")
             => (cpc = "poll" /\ saved' = saved)]_vars

\* the save of the second tick failed
C14_Witness ==
    /\ recResult = "SavingFrameFailed"
    /\ result = "Err(SavingFrameFailed)"
    /\ Len(saved) = 1

\* C15: while dump::run waits for a connection it has no result, no guard, no
\* region and no output file.  A round in which every connect() failed sleeps
\* 1000 ms and goes back to the test of the flag; the wait ends only by a
\* connect() that succeeded or by the flag seen at that test, and then run
\* returns Ok(QuitRequested) with no output file and no region held.
C15_WaitForConnection ==
    /\ [](/\ cpc \in {"wait", "probe"} =>
                /\ result = "none"
                /\ guard = 0
                /\ outFile = "none" /\ saver = "none"
                /\ \A i \in 1..NumConnectors : regions[i] = {}
                /\ slept \in {0, WAIT_SLEEP_MS}
          /\ (cpc = "done" /\ recResult = "none" /\ outFile = "none"
                /\ result \notin {"Err(CreateFileError)", "Err(InvalidSimId)"}) =>
                /\ result = "Ok(QuitRequested)"
                /\ quit_flag
                /\ saver = "none" /\ sink = <<>> /\ pending = <<>>
                /\ \A i \in 1..NumConnectors : regions[i] = {})
    /\ [][/\ (cpc = "probe" /\ cpc' # "probe") =>
                \/ /\ cpc' = "connected"
                   /\ Last(attempts').ret
                \/ /\ cpc' = "wait"
                   /\ slept' = 1000
                   /\ Len(attempts) = NumConnectors
                   /\ \A k \in 1..Len(attempts) : ~attempts[k].ret
                   /\ attempts' = attempts
          /\ (cpc = "wait" /\ cpc' # "wait") =>
                \/ quit_flag /\ cpc' = "done" /\ result' = "Ok(QuitRequested)"
                \/ ~quit_flag /\ cpc' = "probe"
         ]_vars

\* cancelled after a round in which both connect() calls failed
C15_Witness ==
    /\ cpc = "done"
    /\ result = "Ok(QuitRequested)"
    /\ recResult = "none"
    /\ slept = WAIT_SLEEP_MS
    /\ Len(attempts) = NumConnectors

\* C16: in a round the connect() calls go through the connectors in order,
\* iRacing first and Assetto Corsa second; a call is made only after every
\* earlier one of the round failed, the connector of the call that succeeded is
\* the one the guard wraps and the one whose id the recording gets; so with
\* iRacing live at its call, iRacing is the source.
C16_FirstConnectorWins ==
    /\ Len(attempts) <= NumConnectors
    /\ \A k \in 1..Len(attempts) :
          /\ attempts[k].id = Connectors[k]
          /\ k < Len(attempts) => ~attempts[k].ret
    /\ Len(attempts) >= 1 => attempts[1].id = Irac
    /\ Len(attempts) >= 2 => attempts[2].id = Acsa
    /\ guard # 0 => (guard = Len(attempts) /\ Last(attempts).ret)
    /\ saver = "open" => (Last(attempts).ret /\ saverArgs[2] = Last(attempts).id)
    /\ (Len(attempts) >= 1 /\ Live(Irac, attempts[1].env)) =>
          (Len(attempts) = 1 /\ attempts[1].ret)

\* Assetto Corsa became the source of a recording after iRacing, present but
\* not connected, had refused
C16_Witness ==
    /\ saver = "open"
    /\ saverArgs[2] = Acsa
    /\ Len(attempts) = 2
    /\ attempts[1].env.present # {}

\* C17: a connect() call returns true only if every region of its simulator
\* exists and the liveness flag in the first one is not off (iRacing: the
\* Connected bit of status is set; Assetto Corsa: status is not AC_OFF); a
\* connector whose connect() returned false holds no region, and a connector
\* holds all of its regions or none.
C17_ConnectAllOrNothing ==
    /\ \A k \in 1..Len(attempts) :
          /\ attempts[k].ret => Live(attempts[k].id, attempts[k].env)
          /\ ~attempts[k].ret => regions[k] = {}
    /\ \A i \in 1..NumConnectors :
          regions[i] \in {{}, AllRegions(Connectors[i])}

\* Assetto Corsa refused with its three regions opened and status off, and
\* holds none of them
C17_Witness ==
    /\ Len(attempts) = 2
    /\ attempts[2].env.present = AllRegions(Acsa)
    /\ ~attempts[2].ret
    /\ regions[2] = {}

\* C18: play::run returns Err(UnknownSimError) exactly for a recording whose
\* header was read and whose id is neither "irac" nor "acsa", and then no
\* Player method has been called, nothing is held, nothing was loaded and no
\* region was created or written.
C18_UnknownSim ==
    /\ (presult = "Err(UnknownSimError)")
          <=> (ppc = "done" /\ loader = "open" /\ id \notin {Irac, Acsa})
    /\ presult = "Err(UnknownSimError)" =>
          /\ pcalls = <<>>
          /\ player.held = {}
          /\ loads = <<>>
          /\ pwrites = 0
          /\ \A n \in DOMAIN pmem : pmem[n] = <<>>

\* the recording with the id "test" was refused
C18_Witness ==
    /\ presult = "Err(UnknownSimError)"
    /\ id = Test
    /\ rpos = 72

\* C19: what play::run returns after its loop started: Ok(EndOfFile) exactly
\* when the last load() returned None, Err(FailedToLoadFrame) exactly when it
\* failed, Err(FailedToUpdatePlayer) exactly when update() failed on the frame
\* loaded last, Ok(QuitRequested) only when the flag was set and the last
\* load(), if any, returned a frame; after an error nothing is loaded or
\* written.
C19_PlaybackResults ==
    /\ [](/\ (presult = "Ok(EndOfFile)")
                <=> (ppc = "done" /\ loads # <<>> /\ Last(loads).kind = "None")
          /\ (presult = "Err(FailedToLoadFrame)")
                <=> (ppc = "done" /\ loads # <<>> /\ Last(loads).kind = "Err")
          /\ (presult = "Err(FailedToUpdatePlayer)")
                <=> (/\ ppc = "done" /\ loads # <<>> /\ Last(loads).kind = "Some"
                     /\ Last(pcalls) = "update")
          /\ (presult = "Err(FailedToUpdatePlayer)")
                => ~PlayerUpdate(NewPlayer(PlayerFor(id)), pmem,
                                 Last(loads).payload).ok
          /\ (presult = "Ok(QuitRequested)")
                => (/\ quit_flag
                    /\ loads # <<>> => Last(loads).kind = "Some"
                    /\ Last(pcalls) = "stop"))
    /\ [][(presult \in {"Err(FailedToLoadFrame)", "Err(FailedToUpdatePlayer)"})
             => UNCHANGED <<loads, rpos, pwrites, pmem, pcalls, presult>>
         ]_vars

\* the second frame of a recording was too short for the player
C19_Witness ==
    /\ presult = "Err(FailedToUpdatePlayer)"
    /\ Len(loads) = 2
    /\ Last(loads) = SomeFrame(ShortFrame)
    /\ pwrites > 0

\* C20: a stop() call on a player that holds its status region makes one
\* write, the off value 0 in the 4 bytes of the status word, and changes no
\* other byte; a stop() call on a player that holds nothing (after a stop(),
\* before initialize(), after an initialize() that failed) makes no write and
\* changes no byte; after every stop() call the player holds nothing.
C20_StopWritesOffThenReleases ==
    /\ [](/\ player.held \in {{}, {PlayerObjects(player.kind)[i] :
                                    i \in 1..Len(PlayerObjects(player.kind))}}
          /\ (\A k \in 1..Len(pcalls) : pcalls[k] # "initialize") => player.held = {}
          /\ (pcalls = <<"initialize">> /\ presult = "Err") => player.held = {}
          /\ (pcalls # <<>> /\ Last(pcalls) = "stop") => player.held = {})
    /\ [][pcalls' = Append(pcalls, "stop") =>
          LET r == StatusRegion(player.kind)
              off == StatusOffset(player.kind)
          IN  /\ player'.held = {}
              /\ IF r \in player.held
                 THEN /\ pwrites' = pwrites + 1
                      /\ ShmRead(pmem'[r], off, 4) = <<0, 0, 0, 0>>
                      /\ \A n \in DOMAIN pmem :
                            /\ Len(pmem'[n]) >= Len(pmem[n])
                            /\ \A i \in 1..Len(pmem'[n]) :
                                  (n # r \/ i <= off \/ i > off + 4) =>
                                     ShmRead(pmem'[n], i - 1, 1) = ShmRead(pmem[n], i - 1, 1)
                 ELSE /\ pwrites' = pwrites
                      /\ pmem' = pmem
         ]_vars

\* initialize(), update() with a live frame, stop(), stop(): the first stop()
\* made the one write after those of update(), the second none, and the status
\* word is off
C20_Witness ==
    /\ pcalls = <<"initialize", "update", "stop", "stop">>
    /\ pwrites \in {4, 5}
    /\ player.held = {}
    /\ ShmRead(pmem[StatusRegion(player.kind)], StatusOffset(player.kind), 4)
          = <<0, 0, 0, 0>>
    /\ Len(pmem[StatusRegion(player.kind)]) > 8

----------------------------------------------------------------------------
(* Properties of the frame layouts *)

\* The three pages of an Assetto Corsa frame, as the layout orders them.
Pages(f) == <<f.graphics, f.physics, f.statics>>

\* C21: for the Assetto Corsa layout deserialize(serialize(s)) is s for every
\* snapshot s, byte for byte over the three pages and their padding, and
\* serialize gives exactly 5120 bytes: the graphics page in the first 2048,
\* the physics page in the next 1024, the static page in the last 2048.
\* Specification: LayoutSpec.
C21_AssettoCorsaRoundTrip ==
    lop = "assettocorsa round trip" =>
        /\ Len(lout.bytes) = 5120
        /\ SubSeq(lout.bytes, 1, 2048) = lin.graphics
        /\ SubSeq(lout.bytes, 2049, 3072) = lin.physics
        /\ SubSeq(lout.bytes, 3073, 5120) = lin.statics
        /\ lout.back.ok
        /\ Pages(lout.back) = Pages(lin)

\* a snapshot with a byte set at the end of the padding of every page came
\* back
C21_Witness ==
    /\ lop = "assettocorsa round trip"
    /\ lin.graphics[2048] = 255
    /\ lin.physics[1024] = 254
    /\ lin.statics[2048] = 253
    /\ lout.back.ok
    /\ lout.back.physics[1024] = 254

\* C22: for the iracing layout deserialize(serialize(s)) is s field for field
\* (header, every var header, session_info, raw_data) for every snapshot s
\* with header.num_vars var headers, those without a session info and those
\* with an empty one included.
\* Specification: LayoutSpec.
C22_IRacingRoundTrip ==
    lop = "iracing round trip" =>
        /\ lout.fate = "return"
        /\ lout.back.ok
        /\ lout.back.header = lin.header
        /\ lout.back.var_headers = lin.var_headers
        /\ lout.back.has_info = lin.has_info
        /\ lout.back.session_info = lin.session_info
        /\ lout.back.raw_data = lin.raw_data

\* C23: deserialize returns an error for every input that is too short: for
\* Assetto Corsa every input of fewer than 5120 bytes, for iracing every input
\* that ends before the 112 bytes of the header, before the num_vars var
\* headers or before the end of either of the two blobs.  (Of the iracing
\* inputs every one but the live frame itself ends so.)
\* Specification: LayoutSpec.
C23_ShortInputIsError ==
    /\ (lop = "assettocorsa deserialize" /\ Len(lin) < 5120)
          => (lout.fate = "return" /\ ~lout.back.ok)
    /\ (lop = "iracing deserialize" /\ lin # LiveFrame)
          => (lout.fate = "return" /\ ~lout.back.ok)

\* C24: for every header with 1 <= num_buf <= 4, latest_buf_index() is the
\* smallest index among the first num_buf buffers whose tick count is the
\* largest of theirs.
\* Specification: LayoutSpec.
C24_LatestBufIndex ==
    (lop = "latest_buf_index" /\ num_buf(lin) \in 1..4) =>
        /\ lout \in 0..(num_buf(lin) - 1)
        /\ \A j \in 0..(num_buf(lin) - 1) : tick_count(lin, j) <= tick_count(lin, lout)
        /\ \A j \in 0..(lout - 1) : tick_count(lin, j) < tick_count(lin, lout)

\* four buffers, the second and the fourth with the largest tick count: the
\* second is taken
C24_Witness ==
    /\ lop = "latest_buf_index"
    /\ num_buf(lin) = 4
    /\ tick_count(lin, 0) < MaxTick
    /\ tick_count(lin, 1) = MaxTick
    /\ tick_count(lin, 2) < MaxTick
    /\ tick_count(lin, 3) = MaxTick
    /\ lout = 1

----------------------------------------------------------------------------
(* Properties of the players and their regions *)

\* C25: every write call of the Assetto Corsa player (the three of update(),
\* the one of stop()) has offset + length <= 2048, the size its region was
\* created with, for every frame deserialize accepts.
\* Specification: PlayerSpec.
C25_AssettoCorsaWritesInBounds ==
    player.kind = "acsa" =>
        \A i \in 1..Len(wlog) :
            /\ RegionSize(wlog[i].region) = 2048
            /\ wlog[i].offset >= 0
            /\ wlog[i].offset + wlog[i].len <= 2048

\* update() wrote the three pages of a frame, the graphics page filling its
\* region
C25_Witness ==
    /\ player.kind = "acsa"
    /\ pcalls # <<>>
    /\ Last(pcalls) = "update"
    /\ presult = "Ok"
    /\ Len(wlog) = 3
    /\ wlog[1] = [region |-> AC_GRAPHICS_SHM, offset |-> 0, len |-> 2048]
    /\ wlog[2].len = 1024

\* C26: a frame captured while the regions of Assetto Corsa held G in the
\* first 2048 bytes of graphics, P in the first 1024 of physics and S in the
\* first 2048 of static leaves, after the update() of the player with it, G,
\* P and S at the same offsets of the regions of the player.
\* Specification: PlayerSpec.
C26_PlaybackReproducesSource ==
    (/\ player.kind = "acsa"
     /\ pcalls # <<>>
     /\ Last(pcalls) = "update"
     /\ presult = "Ok")
    => \A c \in Captures :
          pdata = c.data =>
             /\ ShmRead(pmem[AC_GRAPHICS_SHM], 0, 2048) = ShmRead(c.src.graphics, 0, 2048)
             /\ ShmRead(pmem[AC_PHYSICS_SHM], 0, 1024) = ShmRead(c.src.physics, 0, 1024)
             /\ ShmRead(pmem[AC_STATIC_SHM], 0, 2048) = ShmRead(c.src.statics, 0, 2048)

\* the frame captured from the regions with the last byte of every page set
\* was played: the bytes are in the regions of the player
C26_Witness ==
    /\ player.kind = "acsa"
    /\ pcalls # <<>>
    /\ Last(pcalls) = "update"
    /\ presult = "Ok"
    /\ pdata \in CapturedFrames
    /\ Len(pmem[AC_GRAPHICS_SHM]) = 2048
    /\ pmem[AC_GRAPHICS_SHM][2048] = 255
    /\ pmem[AC_PHYSICS_SHM][1024] = 254
    /\ pmem[AC_STATIC_SHM][2048] = 253

\* C27: the cancellation flag starts false and never goes back to false: the
\* one step that changes it is the store of the signal handler, which leaves
\* it true; the steps of the capture and playback loops leave it as it is.
\* Specification: SessionSpec.
C27_QuitFlagMonotonic ==
    /\ ~quit_flag
    /\ [][/\ quit_flag => quit_flag'
          /\ quit_flag' # quit_flag =>
                (/\ quit_flag'
                 /\ quitAt' = Running
                 /\ UNCHANGED <<cpc, ppc, result, presult, recResult, loopResult>>)
         ]_vars

\* a loop saw the flag and ended the command with QuitRequested, and the flag
\* is still set
C27_Witness ==
    /\ quit_flag
    /\ \/ cpc = "done" /\ result = "Ok(QuitRequested)"
       \/ ppc = "done" /\ presult = "Ok(QuitRequested)"

\* no writer, no reader of this process and no handle of another process on
\* the name n
Unheld(n) == shm[n].writers = 0 /\ shm[n].readers = 0 /\ shm[n].others = 0

C29_IRacingWritesInBounds ==
    (player.kind = "irac" /\ pcalls # <<>> /\ Last(pcalls) = "update") =>
        \A i \in 1..Len(wlog) : InBounds(wlog[i])

\* C30: after any sequence of update() calls of the iracing player, the
\* session info a consumer reads from the region (the bytes from
\* session_info_offset to the first 0, at most session_info_len of them) is
\* the session info of the latest frame that had one, also when it is shorter
\* than that of an earlier frame.
\* Specification: PlayerSpec.
C30_SessionInfoOfLatestFrame ==
    (/\ player.kind = "irac"
     /\ pcalls # <<>>
     /\ Last(pcalls) = "update"
     /\ presult = "Ok"
     /\ IRacingDeserialize(pdata).has_info)
    => ReadSessionInfo(pmem[IRSDK_MEMMAPFILENAME],
                       ShmRead(pmem[IRSDK_MEMMAPFILENAME], 0, HEADER_SIZE))
          = IRacingDeserialize(pdata).session_info

----------------------------------------------------------------------------
(* Properties of the iracing connector *)

\* the largest tick count among the buffers in use of the header fields f
LatestTick(f) ==
    LET used == {f.bufs[i][1] : i \in {k \in 1..IRSDK_MAX_BUFS : k <= f.num_buf}}
    IN  CHOOSE t \in used : \A u \in used : u <= t

\* the step is an update() call that returned
UpdateReturned == polled'.n = polled.n + 1 /\ polled'.fate = "return"

\* the header of a frame update() returned
FrameHeader(data) == SubSeq(data, 1, HEADER_SIZE)

\* C31: update() returns None and leaves last_tick_count as it was when the
\* connector has no region, when the header of the source is not connected, or
\* when the tick count of the latest buffer equals last_tick_count (0 right
\* after connect); otherwise it returns a frame with the header of the source
\* and records that tick count.  An update() that follows an update() which
\* returned a frame, with the latest tick count of the source the same as in
\* that frame, returns None.
C31_NewDataByTickCount ==
    [][UpdateReturned =>
         LET f == irsdk.f
             offline == ~conn.shm \/ ~IsConnected(f.status)
         IN  /\ (polled'.since = "update")
             /\ IF offline \/ LatestTick(f) = conn.last_tick_count
                THEN /\ ~polled'.some
                     /\ conn'.last_tick_count = conn.last_tick_count
                ELSE /\ polled'.some
                     /\ FrameHeader(polled'.data) = Header(f)
                     /\ conn'.last_tick_count = LatestTick(f)
             /\ (/\ polled.since = "update"
                 /\ polled.some
                 /\ LatestTick(f) =
                       tick_count(FrameHeader(polled.data),
                                  latest_buf_index(FrameHeader(polled.data))))
                  => ~polled'.some
    ]_vars

\* a second update() in a row found the tick count of the frame before
C31_Witness ==
    /\ polled.n >= 2
    /\ polled.since = "update"
    /\ ~polled.some
    /\ conn.shm
    /\ IsConnected(irsdk.f.status)
    /\ conn.last_tick_count > 0
    /\ conn.last_tick_count = LatestTick(irsdk.f)

\* C39: a frame update() returns holds Some session info exactly when
\* session_info_update of the source differs from last_session_info_update,
\* which is 0 right after connect and disconnect; the text is the one of the
\* source and the counter of the source is recorded.  Every other frame holds
\* None and an update() that returns None leaves the recorded counter alone.
C39_SessionInfoOnCounterChange ==
    [][/\ UpdateReturned =>
            LET f == irsdk.f
                fresh == f.session_info_update # conn.last_session_info_update
                frame == IRacingDeserialize(polled'.data)
            IN  IF polled'.some
                THEN /\ polled'.has_info = fresh
                     /\ frame.ok
                     /\ frame.session_info =
                           (IF fresh THEN SessionText(f.session_info_update)
                            ELSE <<>>)
                     /\ conn'.last_session_info_update = f.session_info_update
                ELSE conn'.last_session_info_update = conn.last_session_info_update
       /\ (polled'.since \in {"connect", "disconnect"} /\ polled'.since # polled.since)
            => conn'.last_session_info_update = 0
    ]_vars

\* a frame without session info after a frame with it
C39_Witness ==
    /\ polled.n >= 2
    /\ polled.since = "update"
    /\ polled.some
    /\ ~polled.has_info
    /\ conn.last_session_info_update = 2

----------------------------------------------------------------------------
(* Properties of a recording as a whole *)

\* the payloads of the frames load() returns from position pos on, up to the
\* first call that does not return a frame, and what that call returns
RECURSIVE FramesFrom(_, _, _)
FramesFrom(data, pos, v) ==
    LET r == CHOOSE x \in Load(data, pos, v) : TRUE
    IN  IF r.res.kind = "Some"
        THEN LET rest == FramesFrom(data, r.pos, v)
             IN  [frames |-> <<r.res.payload>> \o rest.frames, last |-> rest.last]
        ELSE [frames |-> <<>>, last |-> r.res]

\* what a Loader reads from a stream: whether new() accepts it, the frames,
\* and the result of the load() after the last frame
Readable(data) ==
    LET l == LoaderNew(data)
    IN  IF l.res.kind # "Ok" THEN [ok |-> FALSE, frames |-> <<>>, last |-> l.res]
        ELSE [ok |-> TRUE,
              frames |-> FramesFrom(data, l.pos, l.version).frames,
              last |-> FramesFrom(data, l.pos, l.version).last]

\* dump::run returned Ok after a recording: record() returned because the
\* source disconnected or the user cancelled, and the flush succeeded
EndedNormally ==
    /\ recResult \in {"SimDisconnected", "QuitRequested"}
    /\ result \in {"Ok(SimDisconnected)", "Ok(QuitRequested)"}

\* C32: when dump::run has returned Ok (source disconnect or cancellation),
\* the frames a Loader reads from the recorded stream are the snapshots
\* update() returned during the recording, in order and byte for byte, and the
\* stream ends on a frame boundary; a poll that returned None appends nothing
\* and a poll that returned data appends one frame.
C32_StreamHoldsTheSnapshots ==
    /\ [](EndedNormally =>
             /\ Readable(sink).ok
             /\ Readable(sink).frames = saved
             /\ Readable(sink).last = None)
    /\ [][/\ emptyRun' > emptyRun => UNCHANGED <<saved, pending, sink>>
          /\ saved' # saved =>
                /\ cpc = "poll"
                /\ \E data \in Snapshots :
                      /\ saved' = Append(saved, data)
                      /\ pending' = pending \o SaverRecord(data)
         ]_vars

\* a recording of two different snapshots with empty polls between them that
\* ended by source disconnect
C32_Witness ==
    /\ result = "Ok(SimDisconnected)"
    /\ Len(saved) = 2
    /\ saved[1] # saved[2]
    /\ resetSeen
    /\ Readable(sink).frames = saved

----------------------------------------------------------------------------
(* Properties of the end of a stream *)

\* C33: load() returns None only at the end of the stream on a frame
\* boundary: whenever a load() call returns None, the reader stood at the end
\* of the stream when the call began; a stream that ends inside a record (at
\* least one byte of it is there) gives an error.
C33_NoneOnlyAtFrameBoundary ==
    [][(loads' # loads /\ Last(loads') = None) => rpos = Len(rdata)]_vars

----------------------------------------------------------------------------
(* Properties of the exits of play::run *)

\* C34: when play::run has returned from a session in which initialize()
\* succeeded - at the end of the file, on cancellation, on a frame-load error
\* or on a sink-update error - stop() was the last call made on the player.
C34_StopOnEveryExit ==
    presult \in {"Ok(EndOfFile)", "Ok(QuitRequested)",
                 "Err(FailedToLoadFrame)", "Err(FailedToUpdatePlayer)"}
        => (pcalls # <<>> /\ Last(pcalls) = "stop")

----------------------------------------------------------------------------
(* Properties of initialize() *)

\* every object of the kind of the player
AllObjects(kind) == {PlayerObjects(kind)[i] : i \in 1..Len(PlayerObjects(kind))}

\* C35: initialize() is all-or-nothing.  When it returns an error, every
\* object created earlier in the call has been released and the fields of the
\* player are what they were before the call: a player that held nothing (as
\* new() made it, or stopped) holds no region or event afterwards.  When it
\* returns Ok, the player holds all of its objects - iracing: region and
\* event; Assetto Corsa: graphics, physics and static - and all are open.
C35_InitializeAllOrNothing ==
    [][pcalls' = Append(pcalls, "initialize") =>
         IF presult' = "Ok"
         THEN /\ player'.held = AllObjects(player.kind)
              /\ pmade'.open = AllObjects(player.kind)
         ELSE /\ pmade'.open = {}
              /\ pmade'.made # AllObjects(player.kind)
              /\ player'.held = player.held
              /\ player.held = {} => player'.held = {}
    ]_vars

\* initialize() of a player that held nothing failed after it had created an
\* object; nothing is open and the player holds nothing
C35_Witness ==
    /\ pcalls # <<>>
    /\ Last(pcalls) = "initialize"
    /\ presult = "Err"
    /\ pmade.made # {}
    /\ pmade.open = {}
    /\ player.held = {}

----------------------------------------------------------------------------
(* Properties of latest_buf_index on any header *)

\* C36: for every header, whatever num_buf holds - negative or above
\* IRSDK_MAX_BUFS included - latest_buf_index() returns, and the index it
\* returns is one of 0..IRSDK_MAX_BUFS - 1.
C36_LatestBufIndexAnyNumBuf ==
    lop = "latest_buf_index, any num_buf" =>
        /\ lout.fate = "return"
        /\ lout.index \in 0..(IRSDK_MAX_BUFS - 1)

----------------------------------------------------------------------------
(* Properties of the tick interval and the sleeper *)

\* C37: for every stream Loader::new accepts, the fps playback uses is at
\* least 1: the tick interval 1000 / fps is a positive finite number of
\* milliseconds and the argument of every sleep_ms call of the playback loop
\* is at most that interval.
C37_PlaybackFpsAtLeastOne ==
    (loader = "open" /\ ppc \notin {"off", "open"}) =>
        /\ fps >= 1
        /\ nap.on => nap.ms <= 1000 \div fps

\* C38: in every sleep_ms call the capture and playback loops make the
\* argument is at least 1, so ms - 1 does not underflow: a rest of the tick
\* that truncates to 0 whole milliseconds causes no call.
C38_SleepArgumentAtLeastOne ==
    nap.on => nap.ms >= 1

============================================================================
